---- MODULE Spec2Model ----
(***************************************************************************)
(* Model of scripts/lib/shacl_to_jsonschema.py: the SHACL to JSON Schema   *)
(* converter (class SHACLToJSONSchemaConverter and main()).                *)
(*                                                                         *)
(* Encoding of the data:                                                   *)
(*   - a Python string is a sequence of tokens (TLA+ strings); the tokens  *)
(*     "#" and "/" are the two separator characters the code splits on;    *)
(*   - an optional value (None or v) is the sequence <<>> or <<v>>;        *)
(*   - a Python / JSON scalar is a tagged pair <<"bool", b>>, <<"int", n>>,*)
(*     <<"float", n>> or <<"str", tokens>>;                                *)
(*   - an RDF term is <<"iri", tokens>>, <<"bnode", tokens>> or            *)
(*     <<"lit", scalar>>;                                                  *)
(*   - a Python dict is a function whose DOMAIN is its key set.            *)
(***************************************************************************)
EXTENDS Integers, Sequences, FiniteSets, TLC

(***************************************************************************)
(* Bounds of the model.                                                    *)
(***************************************************************************)
\* largest sh:minCount / sh:maxCount value drawn for a property shape
MaxCard == 2
\* calls of load_imports_recursive in progress at one time
MaxDepth == 4
\* cells of an RDF list in the graph
MaxCells == 2
\* members of a list the walk is followed for (the code's list has no bound)
MaxMembers == 3
\* constraint nodes linked by sh:not
MaxNots == 3
\* nested Python calls allowed before RecursionError (sys.getrecursionlimit())
RecursionLimit == 4

(***************************************************************************)
(* Basic encodings.                                                        *)
(***************************************************************************)
None == <<>>
Some(v) == <<v>>

Range(s) == {s[i] : i \in 1..Len(s)}

EmptyDict == <<>>
Put(d, k, v) == (k :> v) @@ d
Has(d, k) == k \in DOMAIN d
Without(d, k) == [x \in (DOMAIN d) \ {k} |-> d[x]]

PyBool(b) == <<"bool", b>>
PyInt(n) == <<"int", n>>
PyFloat(n) == <<"float", n>>
PyStr(s) == <<"str", s>>
\* a Python value json cannot encode: the bytes of an xsd:hexBinary literal
PyBytes(s) == <<"bytes", s>>

Iri(t) == <<"iri", t>>
BNode(t) == <<"bnode", t>>
Lit(v) == <<"lit", v>>

\* rdflib Literal.__bool__: the truth value of the literal's Python value.
LiteralTruthy(v) ==
    CASE v[1] = "bool" -> v[2]
      [] v[1] = "int" -> v[2] # 0
      [] v[1] \in {"float", "decimal"} -> v[2] # 0
      [] OTHER -> v[2] # <<>>

\* str(literal): the lexical form. The lexical form of a number is kept as
\* the number, tagged as text, to be parsed back by int() / float().
LiteralStr(v) ==
    CASE v[1] = "bool" -> PyStr(<<IF v[2] THEN "true" ELSE "false">>)
      [] v[1] = "int" -> <<"numstr", v[2]>>
      [] v[1] \in {"float", "decimal"} -> <<"numstr", v[2]>>
      [] OTHER -> v

\* int(s) and float(s) of a lexical form produced by LiteralStr.
IntOf(s) == s[2]
FloatOf(s) == PyFloat(s[2])

(***************************************************************************)
(* _get_literal_value: str(value) when graph.value() is truthy, else None. *)
(***************************************************************************)
\* mutant: "is not None" in place of the truth test
GetLiteralValueNotNone(opt) ==
    IF opt # None THEN Some(LiteralStr(opt[1])) ELSE None

GetLiteralValue(opt) ==
    IF opt # None /\ LiteralTruthy(opt[1]) THEN Some(LiteralStr(opt[1])) ELSE None

(***************************************************************************)
(* _get_local_name: the text after the last "#", else after the last "/",  *)
(* else the whole text.                                                    *)
(***************************************************************************)
LastIndexOf(s, t) ==
    LET I == {i \in 1..Len(s) : s[i] = t}
    IN  IF I = {} THEN 0 ELSE CHOOSE i \in I : \A j \in I : j <= i

GetLocalName(uri) ==
    IF "#" \in Range(uri) THEN SubSeq(uri, LastIndexOf(uri, "#") + 1, Len(uri))
    ELSE IF "/" \in Range(uri) THEN SubSeq(uri, LastIndexOf(uri, "/") + 1, Len(uri))
    ELSE uri

(***************************************************************************)
(* State.                                                                  *)
(***************************************************************************)
VARIABLES
    pc,                 \* position of main(), or of the property-shape run
    args,               \* command line: --input, --naming, --context
    files,              \* the file system: path -> Turtle file
    graph,              \* the rdflib Graph: shapes, owl:imports, namespaces
    visited,            \* load_imports_recursive: the visited set
    stack,              \* load_imports_recursive: the calls in progress
    orch,               \* ontology_cli / autogenerate: the orchestrator's run
    loaded,             \* the files main() has handled, in order, and how
    naming,             \* converter.naming
    iri_to_term,        \* converter._iri_to_term
    class_to_shape_map, \* converter.class_to_shape_map
    node_shapes,        \* convert(): list(graph.subjects(RDF.type, SH.NodeShape))
    shape_idx,          \* convert(): number of node shapes converted so far
    definitions,        \* converter.definitions: [keys (insertion order), map]
    warnings,           \* converter.warnings
    schema,             \* the document convert() returned, once it has
    output,             \* the output file: None until written
    exit_code,          \* the process exit status, None while running
    prop_shape,         \* _convert_property_shape: the property shape given
    prop_result,        \* _convert_property_shape: what it returned
    walk                \* a list walk or a descent through sh:not in progress

vars == <<pc, args, files, graph, visited, stack, orch, loaded, naming, iri_to_term, class_to_shape_map, node_shapes,
          shape_idx, definitions, warnings, schema, output, exit_code,
          prop_shape, prop_result, walk>>

(***************************************************************************)
(* _get_property_name: the JSON term of an IRI under the naming strategy.  *)
(***************************************************************************)
IsPrefix(p, s) == Len(p) <= Len(s) /\ SubSeq(s, 1, Len(p)) = p

\* the first namespace binding, in graph.namespaces() order, whose namespace
\* is a string prefix of the IRI
CurieName(path, bindings) ==
    LET local_name == GetLocalName(path)
        Hits == {i \in 1..Len(bindings) : IsPrefix(bindings[i][2], path)}
    IN  IF Hits = {} THEN local_name
        ELSE LET i == CHOOSE h \in Hits : \A j \in Hits : h <= j
             IN  bindings[i][1] \o <<":">> \o local_name

GetPropertyName(path) ==
    IF naming = "local" THEN GetLocalName(path)
    ELSE IF naming = "context" THEN
        IF Has(iri_to_term, path) /\ iri_to_term[path] # <<>>
        THEN iri_to_term[path]
        ELSE GetLocalName(path)
    ELSE CurieName(path, graph.namespaces)

(***************************************************************************)
(* _load_jsonld_context_inverse: IRI -> term from the @context entries     *)
(* (term, value) in document order; the first term of an IRI wins.         *)
(***************************************************************************)
EndsWithSeparator(value) ==
    Len(value) > 0 /\ value[Len(value)] \in {"/", "#"}

ContextPrefixes(ctx) ==
    LET I == {i \in 1..Len(ctx) : EndsWithSeparator(ctx[i][2])}
        \* a dict comprehension: a later duplicate key replaces an earlier one
        Last(k) == CHOOSE i \in I : ctx[i][1] = k /\ \A j \in I : ctx[j][1] = k => j <= i
    IN  [k \in {ctx[i][1] : i \in I} |-> ctx[Last(k)][2]]

ContextExpand(value, prefixes) ==
    LET colon == IF ":" \in Range(value)
                 THEN CHOOSE i \in 1..Len(value) :
                        value[i] = ":" /\ \A j \in 1..(i - 1) : value[j] # ":"
                 ELSE 0
        pfx == SubSeq(value, 1, colon - 1)
        suffix == SubSeq(value, colon + 1, Len(value))
    IN  IF IsPrefix(<<"http", ":", "/", "/">>, value)
           \/ IsPrefix(<<"https", ":", "/", "/">>, value) THEN value
        ELSE IF colon > 0 /\ Has(prefixes, pfx) /\ prefixes[pfx] # <<>>
             THEN prefixes[pfx] \o suffix
        ELSE value

LoadJsonldContextInverse(ctx) ==
    LET prefixes == ContextPrefixes(ctx)
        Terms == {i \in 1..Len(ctx) : ~EndsWithSeparator(ctx[i][2])}
        iriOf(i) == ContextExpand(ctx[i][2], prefixes)
        First(iri) == CHOOSE i \in Terms :
                        iriOf(i) = iri /\ \A j \in Terms : iriOf(j) = iri => i <= j
    IN  [iri \in {iriOf(i) : i \in Terms} |-> ctx[First(iri)][1]]

(***************************************************************************)
(* RDF lists. A list is its cells in the graph: cell i has an optional     *)
(* rdf:first and an rdf:rest that is another cell, 0 for rdf:nil, or -1    *)
(* when the cell has no rdf:rest triple. The head is cell 1; the empty     *)
(* list is rdf:nil itself.                                                 *)
(***************************************************************************)
RECURSIVE WalkList(_, _)
WalkList(cells, current) ==
    IF current = 0 THEN <<>>
    ELSE cells[current].first
         \o (IF cells[current].rest = -1 THEN <<>>
             ELSE WalkList(cells, cells[current].rest))

\* _extract_list_nodes
ExtractListNodes(list) == WalkList(list, IF Len(list) = 0 THEN 0 ELSE 1)

\* Literal.toPython() followed by the conversions the code applies to make
\* the value JSON-serializable: Decimal -> float.
ToJsonValue(v) == IF v[1] = "decimal" THEN PyFloat(v[2]) ELSE v

RECURSIVE ListValues(_)
ListValues(nodes) ==
    IF nodes = <<>> THEN <<>>
    ELSE LET first == Head(nodes)
             value == IF first[1] = "iri" THEN <<PyStr(first[2])>>
                      ELSE IF first[1] = "lit" THEN
                          IF first[2][1] = "bytes" THEN <<PyStr(first[2][2])>>
                          ELSE <<ToJsonValue(first[2])>>
                      ELSE <<>>
         IN  value \o ListValues(Tail(nodes))

\* _extract_list_values
ExtractListValues(list) == ListValues(ExtractListNodes(list))

(***************************************************************************)
(* The fixed tables of the converter.                                      *)
(***************************************************************************)
xsd_to_json_type ==
    [dt \in {"string", "integer", "int", "long", "short", "byte", "decimal",
             "float", "double", "boolean", "date", "dateTime", "time", "anyURI"} |->
        CASE dt \in {"integer", "int", "long", "short", "byte"} -> "integer"
          [] dt \in {"decimal", "float", "double"} -> "number"
          [] dt = "boolean" -> "boolean"
          [] OTHER -> "string"]

xsd_to_json_format ==
    [dt \in {"dateTime", "date", "time", "anyURI"} |->
        CASE dt = "dateTime" -> "date-time"
          [] dt = "date" -> "date"
          [] dt = "time" -> "time"
          [] OTHER -> "uri"]

\* the schema of an sh:datatype: type, and format when the table has one
DatatypeSchema(datatype) ==
    LET typed == "type" :> (IF datatype \in DOMAIN xsd_to_json_type
                            THEN xsd_to_json_type[datatype] ELSE "string")
    IN  IF datatype \in DOMAIN xsd_to_json_format
        THEN Put(typed, "format", xsd_to_json_format[datatype])
        ELSE typed

JsonldIdObjectSchema ==
    [type |-> "object",
     properties |-> (<<"@id">> :> [type |-> "string", format |-> "uri"]),
     required |-> << <<"@id">> >>,
     additionalProperties |-> TRUE]

UriString == [type |-> "string", format |-> "uri"]

NodekindToSchema(node_kind) ==
    CASE node_kind = "IRI" -> [anyOf |-> <<UriString, JsonldIdObjectSchema>>]
      [] node_kind = "Literal" -> [type |-> "string"]
      [] node_kind = "BlankNode" -> [type |-> "object"]
      [] node_kind = "BlankNodeOrIRI" ->
            [anyOf |-> <<[type |-> "object"], UriString, JsonldIdObjectSchema>>]
      [] node_kind = "IRIOrLiteral" ->
            [anyOf |-> <<UriString, JsonldIdObjectSchema, [type |-> "string"]>>]
      [] node_kind = "BlankNodeOrLiteral" ->
            [anyOf |-> <<[type |-> "object"], [type |-> "string"]>>]
      [] OTHER -> "$comment" :> <<"Unsupported sh:nodeKind ", node_kind>>

RefTo(shape_name) == <<"#/$defs/">> \o shape_name

\* dict.get(key) of class_to_shape_map, None when absent
ShapeForClass(c2s, class_uri) ==
    IF Has(c2s, class_uri) THEN Some(c2s[class_uri]) ELSE None

(***************************************************************************)
(* _convert_inline_constraint_to_schema: one member of a property-level    *)
(* sh:or list.                                                             *)
(***************************************************************************)
ConvertInlineConstraintToSchema(node, c2s) ==
    IF node.datatype # None THEN DatatypeSchema(node.datatype[1])
    ELSE IF node.nodeKind # None THEN NodekindToSchema(node.nodeKind[1])
    ELSE IF node.class # None THEN
        LET shape_name == ShapeForClass(c2s, node.class[1])
        IN  IF shape_name # None /\ shape_name[1] # <<>>
            THEN "$ref" :> RefTo(shape_name[1])
            ELSE "$comment" :> (<<"sh:class ">> \o node.class[1]
                                \o <<" - no corresponding shape found">>)
    ELSE IF node.node # None THEN "$ref" :> RefTo(GetLocalName(node.node[1]))
    ELSE EmptyDict

(***************************************************************************)
(* _convert_property_shape, in the order of its code.                      *)
(***************************************************************************)
\* lines 375-381: sh:description, else sh:message
PropDescription(ps) ==
    LET description == GetLiteralValue(ps.description)
        message == GetLiteralValue(ps.message)
    IN  IF description # None THEN "description" :> description[1]
        ELSE IF message # None THEN "description" :> message[1]
        ELSE EmptyDict

\* mutant: the numeric test ahead of the boolean one (bool is an int in Python)
HasValueSchemaIntFirst(has_value, prop_def) ==
    IF has_value[1] = "iri" THEN
        Put(Put(prop_def, "const", PyStr(GetPropertyName(has_value[2]))),
            "type", "string")
    ELSE IF has_value[1] = "lit" THEN
        LET val == ToJsonValue(has_value[2])
        IN  Put(Put(prop_def, "const", val), "type",
                CASE val[1] \in {"bool", "int", "float"} -> "number"
                  [] OTHER -> "string")
    ELSE prop_def

\* lines 390-411: sh:hasValue -> const and the inferred type
HasValueSchema(has_value, prop_def) ==
    IF has_value[1] = "iri" THEN
        Put(Put(prop_def, "const", PyStr(GetPropertyName(has_value[2]))),
            "type", "string")
    ELSE IF has_value[1] = "lit" THEN
        LET val == ToJsonValue(has_value[2])
        IN  Put(Put(prop_def, "const", val), "type",
                CASE val[1] = "bool" -> "boolean"
                  [] val[1] \in {"int", "float"} -> "number"
                  [] OTHER -> "string")
    ELSE prop_def

\* lines 416-428: the anyOf of a property-level sh:or, nested anyOf flattened
RECURSIVE OrAlternatives(_, _)
OrAlternatives(nodes, c2s) ==
    IF nodes = <<>> THEN <<>>
    ELSE LET alt_schema == ConvertInlineConstraintToSchema(Head(nodes), c2s)
             here == IF DOMAIN alt_schema = {} THEN <<>>
                     ELSE IF DOMAIN alt_schema = {"anyOf"} THEN alt_schema["anyOf"]
                     ELSE <<alt_schema>>
         IN  here \o OrAlternatives(Tail(nodes), c2s)

\* mutant: sh:class is read ahead of sh:node
PropTypeSchemaClassFirst(ps, prop_name, prop_def, c2s) ==
    IF ps.hasValue # None THEN
        [def |-> HasValueSchema(ps.hasValue[1], prop_def), warnings |-> <<>>]
    ELSE IF ps.or # None THEN
        [def |-> Put(prop_def, "anyOf", OrAlternatives(ExtractListNodes(ps.or[1]), c2s)),
         warnings |-> <<>>]
    ELSE IF ps.datatype # None THEN
        [def |-> DatatypeSchema(ps.datatype[1]) @@ prop_def, warnings |-> <<>>]
    ELSE IF ps.nodeKind # None THEN
        [def |-> NodekindToSchema(ps.nodeKind[1]) @@ prop_def, warnings |-> <<>>]
    ELSE IF ps.class # None /\ ShapeForClass(c2s, ps.class[1]) # None THEN
        [def |-> Put(prop_def, "$ref", RefTo(ShapeForClass(c2s, ps.class[1])[1])),
         warnings |-> <<>>]
    ELSE IF ps.node # None THEN
        [def |-> Put(prop_def, "$ref", RefTo(GetLocalName(ps.node[1]))),
         warnings |-> <<>>]
    ELSE [def |-> Put(prop_def, "$comment",
                      <<"No explicit sh:datatype or sh:class found">>),
          warnings |-> <<>>]

\* lines 383-474: the type source, first match wins. Returns the schema and
\* the warnings appended.
PropTypeSchema(ps, prop_name, prop_def, c2s) ==
    IF ps.hasValue # None THEN
        [def |-> HasValueSchema(ps.hasValue[1], prop_def), warnings |-> <<>>]
    ELSE IF ps.or # None THEN
        LET any_of == OrAlternatives(ExtractListNodes(ps.or[1]), c2s)
        IN  IF any_of # <<>>
            THEN [def |-> Put(prop_def, "anyOf", any_of), warnings |-> <<>>]
            ELSE [def |-> Put(prop_def, "$comment",
                              <<"sh:or present but could not be converted">>),
                  warnings |-> << <<"sh:or found in ">> \o prop_name
                                  \o <<" but no convertible alternatives were found">> >>]
    ELSE IF ps.datatype # None THEN
        [def |-> DatatypeSchema(ps.datatype[1]) @@ prop_def, warnings |-> <<>>]
    ELSE IF ps.nodeKind # None THEN
        [def |-> NodekindToSchema(ps.nodeKind[1]) @@ prop_def, warnings |-> <<>>]
    ELSE IF ps.node # None THEN
        [def |-> Put(prop_def, "$ref", RefTo(GetLocalName(ps.node[1]))),
         warnings |-> <<>>]
    ELSE IF ps.class # None THEN
        LET shape_name == ShapeForClass(c2s, ps.class[1])
        IN  IF shape_name # None /\ shape_name[1] # <<>>
            THEN [def |-> Put(prop_def, "$ref", RefTo(shape_name[1])),
                  warnings |-> <<>>]
            ELSE [def |-> Put(prop_def, "$comment",
                              <<"sh:class ">> \o ps.class[1]
                              \o <<" - no corresponding shape found">>),
                  warnings |-> << <<"No shape found with sh:targetClass ">>
                                  \o ps.class[1] \o <<" for property ">>
                                  \o prop_name >>]
    ELSE [def |-> Put(prop_def, "$comment",
                      <<"No explicit sh:datatype or sh:class found">>),
          warnings |-> <<>>]

\* mutant: the $ref keeps its description beside it
RefRewriteKeepsSibling(prop_def) == prop_def

\* lines 476-482: a $ref with a description becomes description + allOf
RefRewrite(prop_def) ==
    IF Has(prop_def, "$ref") /\ Has(prop_def, "description")
    THEN [description |-> prop_def["description"],
          allOf |-> << ("$ref" :> prop_def["$ref"]) >>]
    ELSE prop_def

\* lines 488-492
IsRequired(min_count) == min_count # None /\ IntOf(min_count[1]) >= 1

\* lines 496-500 and 508-512: the array schema around the schema so far
ArrayOf(prop_def) ==
    LET items == IF Has(prop_def, "type") \/ Has(prop_def, "$ref")
                 THEN "items" :> Without(prop_def, "description")
                 ELSE EmptyDict
        description == IF Has(prop_def, "description")
                       THEN "description" :> prop_def["description"]
                       ELSE EmptyDict
    IN  ("type" :> "array") @@ items @@ description

\* mutant: only a schema with type or $ref is wrapped
WrapArrayTypedOnly(prop_def, min_count, max_count) ==
    IF ~(Has(prop_def, "type") \/ Has(prop_def, "$ref")) THEN prop_def
    ELSE IF max_count # None /\ IntOf(max_count[1]) > 1 THEN
        LET minItems == IF min_count # None
                        THEN "minItems" :> IntOf(min_count[1]) ELSE EmptyDict
        IN  ArrayOf(prop_def) @@ minItems @@ ("maxItems" :> IntOf(max_count[1]))
    ELSE IF min_count # None /\ IntOf(min_count[1]) > 1 THEN
        ArrayOf(prop_def) @@ ("minItems" :> IntOf(min_count[1]))
    ELSE prop_def

\* lines 494-514: cardinality
WrapArray(prop_def, min_count, max_count) ==
    IF max_count # None /\ IntOf(max_count[1]) > 1 THEN
        LET minItems == IF min_count # None
                        THEN "minItems" :> IntOf(min_count[1]) ELSE EmptyDict
        IN  ArrayOf(prop_def) @@ minItems @@ ("maxItems" :> IntOf(max_count[1]))
    ELSE IF min_count # None /\ IntOf(min_count[1]) > 1 THEN
        ArrayOf(prop_def) @@ ("minItems" :> IntOf(min_count[1]))
    ELSE prop_def

\* the schema the value constraints go to: the items of an array that has
\* items, else the property schema itself (lines 522 and 537-539)
HasItemsTarget(prop_def) ==
    Has(prop_def, "type") /\ prop_def["type"] = "array" /\ Has(prop_def, "items")

TargetOf(prop_def) == IF HasItemsTarget(prop_def) THEN prop_def["items"] ELSE prop_def

WithTarget(prop_def, target) ==
    IF HasItemsTarget(prop_def) THEN [prop_def EXCEPT !["items"] = target] ELSE target

\* Python equality of set elements: True == 1 and False == 0
PyKey(v) ==
    CASE v[1] = "bool" -> <<"num", IF v[2] THEN 1 ELSE 0>>
      [] v[1] \in {"int", "float"} -> <<"num", v[2]>>
      [] OTHER -> v

\* mutant: the list compared in order, not as a set
IsTrueFalseInOrder(enum_values) ==
    enum_values = <<PyBool(TRUE), PyBool(FALSE)>>

IsTrueFalseSet(enum_values) ==
    {PyKey(enum_values[i]) : i \in 1..Len(enum_values)} = {<<"num", 1>>, <<"num", 0>>}

\* lines 516-529: sh:in -> enum
ApplyIn(ps, prop_def) ==
    IF ps.in = None THEN prop_def
    ELSE LET enum_values == ExtractListValues(ps.in[1])
             enum_target == TargetOf(prop_def)
         IN  IF enum_values = <<>> THEN prop_def
             ELSE IF Has(enum_target, "type") /\ enum_target["type"] = "boolean"
                     /\ IsTrueFalseSet(enum_values)
                  THEN prop_def
             ELSE WithTarget(prop_def, Put(enum_target, "enum", enum_values))

\* one optional keyword of the target schema
Keyword(key, value) == IF value = None THEN EmptyDict ELSE key :> value[1]

OptFloat(lit) ==
    LET s == GetLiteralValue(lit) IN IF s = None THEN None ELSE Some(FloatOf(s[1]))

OptInt(lit) ==
    LET s == GetLiteralValue(lit) IN IF s = None THEN None ELSE Some(IntOf(s[1]))

OptPattern(lit) == GetLiteralValue(lit)

\* lines 531-560: numeric and string constraints
ApplyBounds(ps, prop_def) ==
    WithTarget(prop_def,
        Keyword("pattern", OptPattern(ps.pattern))
        @@ Keyword("maxLength", OptInt(ps.maxLength))
        @@ Keyword("minLength", OptInt(ps.minLength))
        @@ Keyword("exclusiveMaximum", OptFloat(ps.maxExclusive))
        @@ Keyword("exclusiveMinimum", OptFloat(ps.minExclusive))
        @@ Keyword("maximum", OptFloat(ps.maxInclusive))
        @@ Keyword("minimum", OptFloat(ps.minInclusive))
        @@ TargetOf(prop_def))

\* mutant: the $comment of sh:sparql replaces the one already there
UnconvertibleReplacesComment(ps, prop_name, prop_def) ==
    [def |-> IF ps.sparql
             THEN Put(prop_def, "$comment",
                      <<"Contains sh:sparql constraint not convertible to JSON Schema">>)
             ELSE prop_def,
     warnings |-> (IF ps.xone THEN << <<"sh:xone found in ">> \o prop_name >> ELSE <<>>)
                  \o (IF ps.and THEN << <<"sh:and found in ">> \o prop_name >> ELSE <<>>)
                  \o (IF ps.sparql THEN << <<"sh:sparql found in ">> \o prop_name >> ELSE <<>>)]

\* lines 562-578: sh:xone, sh:and, sh:sparql
Unconvertible(ps, prop_name, prop_def) ==
    LET xone == IF ps.xone
                THEN << <<"sh:xone found in ">> \o prop_name
                        \o <<" - partial conversion to oneOf">> >>
                ELSE <<>>
        and == IF ps.and
               THEN << <<"sh:and found in ">> \o prop_name
                       \o <<" - partial conversion to allOf">> >>
               ELSE <<>>
        sparql == IF ps.sparql
                  THEN << <<"sh:sparql found in ">> \o prop_name
                          \o <<" - CANNOT be converted to JSON Schema">> >>
                  ELSE <<>>
        old == IF Has(prop_def, "$comment") THEN prop_def["$comment"] ELSE <<>>
        \* (old + " Contains ...").strip()
        comment == IF old = <<>>
                   THEN <<"Contains sh:sparql constraint not convertible to JSON Schema">>
                   ELSE old \o <<" Contains sh:sparql constraint not convertible to JSON Schema">>
    IN  [def |-> IF ps.sparql THEN Put(prop_def, "$comment", comment) ELSE prop_def,
         warnings |-> xone \o and \o sparql]

\* lines 365-580: returns (prop_name, prop_def, is_required) and the warnings
\* appended to converter.warnings
ConvertPropertyShape(ps, c2s) ==
    IF ps.path = None \/ ps.path[1] = <<>> THEN
        [name |-> None, def |-> EmptyDict, required |-> FALSE,
         warnings |-> << <<"Property shape without sh:path found">> >>]
    ELSE
        LET prop_name == GetPropertyName(ps.path[1])
            typed == PropTypeSchema(ps, prop_name, PropDescription(ps), c2s)
            min_count == GetLiteralValue(ps.minCount)
            max_count == GetLiteralValue(ps.maxCount)
            wrapped == WrapArray(RefRewrite(typed.def), min_count, max_count)
            last == Unconvertible(ps, prop_name, ApplyBounds(ps, ApplyIn(ps, wrapped)))
        IN  [name |-> Some(prop_name), def |-> last.def,
             required |-> IsRequired(min_count),
             warnings |-> typed.warnings \o last.warnings]

(***************************************************************************)
(* _convert_node_shape and what it calls.                                  *)
(***************************************************************************)
\* the loop over graph.objects(node, SH.property) (lines 215-220, 332-338):
\* a later property shape of the same name replaces the earlier entry
RECURSIVE ConvertProperties(_, _, _)
ConvertProperties(prop_shapes, c2s, acc) ==
    IF prop_shapes = <<>> THEN acc
    ELSE LET r == ConvertPropertyShape(Head(prop_shapes), c2s)
             named == r.name # None /\ r.name[1] # <<>>
         IN  ConvertProperties(Tail(prop_shapes), c2s,
                 [properties |-> IF named THEN Put(acc.properties, r.name[1], r.def)
                                 ELSE acc.properties,
                  required |-> IF named /\ r.required
                               THEN Append(acc.required, r.name[1])
                               ELSE acc.required,
                  warnings |-> acc.warnings \o r.warnings])

\* _is_informative_property_schema
IsInformativePropertySchema(prop_schema) ==
    DOMAIN prop_schema \cap
        {"type", "$ref", "anyOf", "oneOf", "allOf", "enum", "format", "minimum",
         "maximum", "exclusiveMinimum", "exclusiveMaximum", "pattern",
         "minLength", "maxLength"} # {}

\* mutant: the schema seen first is kept
MergeFirstWins(properties, found) ==
    [name \in DOMAIN properties \cup DOMAIN found |->
        IF name \in DOMAIN properties THEN properties[name] ELSE found[name]]

\* the merge loops (lines 232-242, 271-277, 351-355): an entry is written
\* when the name is new, or the old schema is uninformative and the new one
\* is informative
MergeInformative(properties, found) ==
    [name \in DOMAIN properties \cup DOMAIN found |->
        IF name \notin DOMAIN found THEN properties[name]
        ELSE IF name \notin DOMAIN properties THEN found[name]
        ELSE IF ~IsInformativePropertySchema(properties[name])
                /\ IsInformativePropertySchema(found[name]) THEN found[name]
        ELSE properties[name]]

\* the sh:property objects of a constraint node: its own when it is a blank
\* node, those of the graph's shape of that IRI otherwise
PropertyShapesOf(node) ==
    IF node.kind = "bnode" THEN node.props
    ELSE IF \E sh \in graph.shapes : sh.id = node.id
         THEN (CHOOSE sh \in graph.shapes : sh.id = node.id).props
         ELSE <<>>

\* lines 348-357: the loop over the sh:not objects of a constraint node,
\* given the result of the recursive call for each
RECURSIVE ConvertNots(_, _)
ConvertNots(nested, acc) ==
    IF nested = <<>> THEN acc
    ELSE ConvertNots(Tail(nested),
             [subschemas |-> IF DOMAIN Head(nested).schema # {}
                             THEN Append(acc.subschemas, [not |-> Head(nested).schema])
                             ELSE acc.subschemas,
              discovered |-> MergeInformative(acc.discovered, Head(nested).discovered),
              warnings |-> acc.warnings \o Head(nested).warnings])

\* lines 340-346: the object schema of the sh:property objects of a
\* constraint node, the first of its subschemas
ObjectSchemas(own) ==
    IF DOMAIN own.properties # {} \/ own.required # <<>>
    THEN << ("type" :> "object")
            @@ (IF DOMAIN own.properties # {}
                THEN "properties" :> own.properties ELSE EmptyDict)
            @@ (IF own.required # <<>>
                THEN "required" :> own.required ELSE EmptyDict) >>
    ELSE <<>>

\* lines 359-363: no subschema, the only one, or allOf of them
CombineSubschemas(all) ==
    [schema |-> IF all.subschemas = <<>> THEN EmptyDict
                ELSE IF Len(all.subschemas) = 1 THEN all.subschemas[1]
                ELSE [allOf |-> all.subschemas],
     discovered |-> all.discovered,
     warnings |-> all.warnings]

\* _convert_node_constraint_node_to_schema: (schema, discovered_properties)
\* and the warnings appended
RECURSIVE ConvertNodeConstraintNodeToSchema(_, _)
NodeConstraintSchema(node, c2s, own) ==
    CombineSubschemas(
        ConvertNots([i \in 1..Len(node.not) |->
                        ConvertNodeConstraintNodeToSchema(node.not[i], c2s)],
                    [subschemas |-> ObjectSchemas(own),
                     discovered |-> own.properties,
                     warnings |-> own.warnings]))

ConvertNodeConstraintNodeToSchema(node, c2s) ==
    NodeConstraintSchema(node, c2s,
        ConvertProperties(PropertyShapesOf(node), c2s,
            [properties |-> EmptyDict, required |-> <<>>, warnings |-> <<>>]))

\* lines 229-242: one alternative of a node-level sh:or joins the anyOf list
\* and the properties discovered
AddAlternative(acc, alt) ==
    [any_of |-> IF DOMAIN alt.schema # {}
                THEN Append(acc.any_of, alt.schema) ELSE acc.any_of,
     discovered |-> MergeInformative(acc.discovered, alt.discovered),
     warnings |-> acc.warnings \o alt.warnings]

\* lines 228-236: the alternatives of a node-level sh:or
RECURSIVE ConvertAlternatives(_, _, _)
ConvertAlternatives(alt_nodes, c2s, acc) ==
    IF alt_nodes = <<>> THEN acc
    ELSE ConvertAlternatives(Tail(alt_nodes), c2s,
             AddAlternative(acc,
                 ConvertNodeConstraintNodeToSchema(Head(alt_nodes), c2s)))

\* lines 261-265: a member of sh:and that is an IRI becomes a $ref, unless
\* it is the shape itself
AddReference(acc, ref_name, shape_name) ==
    IF ref_name = shape_name THEN acc
    ELSE [acc EXCEPT !.all_of = Append(@, "$ref" :> RefTo(ref_name))]

\* lines 268-277: an inline member of sh:and joins the allOf list and the
\* properties of the definition
AddInline(acc, inline) ==
    [all_of |-> IF DOMAIN inline.schema # {}
                THEN Append(acc.all_of, inline.schema) ELSE acc.all_of,
     properties |-> MergeInformative(acc.properties, inline.discovered),
     warnings |-> acc.warnings \o inline.warnings]

\* lines 260-279: the members of a node-level sh:and
RECURSIVE ConvertMembers(_, _, _, _)
ConvertMembers(and_nodes, shape_name, c2s, acc) ==
    IF and_nodes = <<>> THEN acc
    ELSE ConvertMembers(Tail(and_nodes), shape_name, c2s,
             IF Head(and_nodes).kind = "iri"
             THEN AddReference(acc, GetLocalName(Head(and_nodes).id), shape_name)
             ELSE AddInline(acc,
                      ConvertNodeConstraintNodeToSchema(Head(and_nodes), c2s)))

\* str(closed).lower() == "true"
IsClosed(shape) ==
    LET closed == GetLiteralValue(shape.closed)
    IN  closed # None /\ closed[1][1] = "str"
        /\ closed[1][2] \in {<<"true">>, <<"True">>, <<"TRUE">>}

\* lines 178-205: title, $comment, description and the @type property of
\* sh:targetClass
DefinitionHeader(shape) ==
    LET name == GetLiteralValue(shape.name)
        description == GetLiteralValue(shape.description)
    IN  [type |-> "object", title |-> GetLocalName(shape.id)]
        @@ ("$comment" :> (<<"Generated from SHACL shape ">> \o shape.id))
        @@ (IF description # None THEN "description" :> description[1]
            ELSE IF name # None THEN "description" :> name[1]
            ELSE EmptyDict)

\* mutant: @type is required without being declared
TypePropertyRequiredOnly(shape) ==
    IF shape.targetClass # None /\ shape.targetClass[1] # <<>>
    THEN [properties |-> EmptyDict, required |-> << <<"@type">> >>, warnings |-> <<>>]
    ELSE [properties |-> EmptyDict, required |-> <<>>, warnings |-> <<>>]

TypeProperty(shape) ==
    LET class_name == GetLocalName(shape.targetClass[1])
    IN  IF shape.targetClass # None /\ shape.targetClass[1] # <<>>
        THEN [properties |->
                 <<"@type">> :> [type |-> "string",
                                 const |-> PyStr(class_name),
                                 description |->
                                    PyStr(<<"Type identifier for ">> \o class_name)],
              required |-> << <<"@type">> >>, warnings |-> <<>>]
        ELSE [properties |-> EmptyDict, required |-> <<>>, warnings |-> <<>>]

NoAlternatives == [any_of |-> <<>>, discovered |-> EmptyDict, warnings |-> <<>>]

\* lines 244-292: the definition assembled from the direct properties, the
\* alternatives of sh:or, the properties merged from them and the members
\* of sh:and, and the warnings appended
AssembleDefinition(shape, direct, alts, properties, members) ==
    [def |->
        DefinitionHeader(shape)
        \* definition["properties"] is set before sh:and is read, and only
        \* when the dict is not empty; sh:and then updates that same dict
        @@ (IF DOMAIN properties # {}
            THEN "properties" :> members.properties ELSE EmptyDict)
        @@ (IF direct.required # <<>>
            THEN "required" :> direct.required ELSE EmptyDict)
        @@ (IF alts.any_of # <<>> THEN "anyOf" :> alts.any_of ELSE EmptyDict)
        @@ (IF members.all_of # <<>> THEN "allOf" :> members.all_of ELSE EmptyDict)
        @@ (IF IsClosed(shape)
            THEN "additionalProperties" :> FALSE ELSE EmptyDict),
     warnings |->
        direct.warnings \o alts.warnings
        \o (IF shape.or # None /\ alts.any_of = <<>>
            THEN << <<"sh:or found in NodeShape ">> \o GetLocalName(shape.id)
                    \o <<" but no convertible alternatives were found">> >>
            ELSE <<>>)
        \o members.warnings
        \o (IF shape.and # None /\ members.all_of = <<>>
            THEN << <<"sh:and found in NodeShape ">> \o GetLocalName(shape.id)
                    \o <<" but no convertible members were found">> >>
            ELSE <<>>)]

\* lines 257-283: sh:and, read on the properties merged so far
WithMembers(shape, c2s, direct, alts, properties) ==
    AssembleDefinition(shape, direct, alts, properties,
        IF shape.and # None
        THEN ConvertMembers(ExtractListNodes(shape.and[1]), GetLocalName(shape.id),
                 c2s, [all_of |-> <<>>, properties |-> properties, warnings |-> <<>>])
        ELSE [all_of |-> <<>>, properties |-> properties, warnings |-> <<>>])

\* lines 222-242: the properties discovered in the alternatives of sh:or
\* join the direct ones
WithAlternatives(shape, c2s, direct, alts) ==
    WithMembers(shape, c2s, direct, alts,
        MergeInformative(direct.properties, alts.discovered))

\* _convert_node_shape (lines 173-292): the definition generated from a node
\* shape, and the warnings appended
NodeShapeDefinition(shape, c2s) ==
    WithAlternatives(shape, c2s,
        ConvertProperties(shape.props, c2s, TypeProperty(shape)),
        IF shape.or # None
        THEN ConvertAlternatives(ExtractListNodes(shape.or[1]), c2s, NoAlternatives)
        ELSE NoAlternatives)

\* line 293: self.definitions[shape_name] = definition; a dict keeps the
\* position of a key that is assigned again
StoreDefinition(defs, shape_name, def) ==
    [keys |-> IF shape_name \in Range(defs.keys) THEN defs.keys
              ELSE Append(defs.keys, shape_name),
     map |-> Put(defs.map, shape_name, def)]

\* _build_class_to_shape_map: a later shape of the same class replaces the
\* earlier entry
RECURSIVE BuildClassToShapeMap(_, _)
BuildClassToShapeMap(shapes, c2s) ==
    IF shapes = <<>> THEN c2s
    ELSE LET shape == Head(shapes)
         IN  BuildClassToShapeMap(Tail(shapes),
                 IF shape.targetClass # None /\ shape.targetClass[1] # <<>>
                 THEN Put(c2s, shape.targetClass[1], GetLocalName(shape.id))
                 ELSE c2s)

\* mutant: the placeholder carries an empty fragment dictionary
CreateEmptySchemaWithDefs ==
    "$schema" :> <<"http://json-schema.org/draft-07/schema#">>
    @@ "$defs" :> [keys |-> <<>>, map |-> <<>>]
    @@ [title |-> <<"Empty Schema">>,
        description |-> <<"str", <<"No SHACL shapes found for conversion">> >>,
        type |-> "object"]

\* _create_empty_schema
CreateEmptySchema ==
    "$schema" :> <<"http://json-schema.org/draft-07/schema#">>
    @@ [title |-> <<"Empty Schema">>,
        description |-> PyStr(<<"No SHACL shapes found for conversion">>),
        type |-> "object"]

\* dict.get(key, default)
GetOr(d, k, default) == IF Has(d, k) THEN d[k] ELSE default

\* _create_main_schema
CreateMainSchema(defs) ==
    LET header == "$schema" :> <<"http://json-schema.org/draft-07/schema#">>
                  @@ "$comment" :> <<"Auto-generated by shacl-to-jsonschema.py - DO NOT EDIT MANUALLY">>
                  @@ "$defs" :> defs
                  @@ [title |-> <<"Generated JSON Schema from SHACL">>,
                      description |->
                         PyStr(<<"This schema was automatically generated from SHACL shapes. It provides structural validation only. For semantic validation, use the original SHACL shapes.">>)]
        first_shape == defs.map[defs.keys[1]]
        copied == {k \in {"additionalProperties", "allOf", "anyOf", "oneOf", "not",
                          "title", "description"} : Has(first_shape, k)}
    IN  IF defs.keys = <<>> THEN header
        ELSE [k \in copied |-> first_shape[k]]
             @@ [type |-> GetOr(first_shape, "type", "object"),
                 properties |-> GetOr(first_shape, "properties", EmptyDict),
                 required |-> GetOr(first_shape, "required", <<>>)]
             @@ header

(***************************************************************************)
(* Inputs: the IRIs, literals and property shapes the runs are drawn from. *)
(***************************************************************************)
Ns1 == <<"http", ":", "/", "/", "ex1", "/">>
Ns2 == <<"http", ":", "/", "/", "ex2", "#">>
Ex1(local) == Ns1 \o <<local>>
Ex2(local) == Ns2 \o <<local>>

Text(t) == Some(PyStr(<<t>>))
Count(n) == Some(PyInt(n))

\* a well-formed RDF list of the given members
RECURSIVE MkCells(_, _)
MkCells(members, i) ==
    IF i > Len(members) THEN <<>>
    ELSE <<[first |-> Some(members[i]),
            rest |-> IF i = Len(members) THEN 0 ELSE i + 1]>>
         \o MkCells(members, i + 1)

MkList(members) == MkCells(members, 1)

\* a property shape with no triple but its sh:path
NoConstraint ==
    [path |-> Some(Ex1("code")), description |-> None, message |-> None,
     datatype |-> None, class |-> None, nodeKind |-> None, or |-> None,
     hasValue |-> None, node |-> None, minCount |-> None, maxCount |-> None,
     in |-> None, minInclusive |-> None, maxInclusive |-> None,
     minExclusive |-> None, maxExclusive |-> None, minLength |-> None,
     maxLength |-> None, pattern |-> None,
     xone |-> FALSE, and |-> FALSE, sparql |-> FALSE]

\* a member of a property-level sh:or list
Alternative(datatype, class, nodeKind, node) ==
    [datatype |-> datatype, class |-> class, nodeKind |-> nodeKind, node |-> node]

OrLists ==
    {MkList(<<Alternative(Some("string"), None, None, None),
              Alternative(None, Some(Ex1("PartyClass")), None, None)>>),
     MkList(<<Alternative(None, None, Some("IRI"), None),
              Alternative(None, Some(Ex1("Unknown")), None, None)>>),
     MkList(<<Alternative(None, None, None, None)>>),
     MkList(<<>>)}

Cards == {None} \cup {Count(n) : n \in 0..MaxCard}

\* the class index the property-shape runs start from
PropC2S == Ex1("PartyClass") :> <<"Party">>

InLists ==
    {MkList(<<Lit(PyBool(TRUE)), Lit(PyBool(FALSE))>>),
     MkList(<<Lit(PyBool(FALSE)), Lit(PyBool(TRUE))>>),
     MkList(<<Lit(PyStr(<<"a">>)), Iri(Ex1("b"))>>),
     MkList(<<Lit(PyBool(TRUE))>>)}

\* type sources against each other, cardinality and description
PropsTypes ==
    {[NoConstraint EXCEPT !.hasValue = hv, !.or = o, !.datatype = dt,
                          !.nodeKind = nk, !.node = n, !.class = c,
                          !.minCount = mn, !.maxCount = mx, !.description = d] :
        hv \in {None, Some(Iri(Ex2("code"))), Some(Lit(PyBool(TRUE))),
                Some(Lit(PyBool(FALSE)))},
        o \in {None, Some(MkList(<<Alternative(Some("string"), None, None, None)>>))},
        dt \in {None, Some("boolean"), Some("integer")},
        nk \in {None, Some("IRI")},
        n \in {None, Some(Ex2("Party"))},
        c \in {None, Some(Ex1("PartyClass")), Some(Ex1("Unknown"))},
        mn \in Cards, mx \in Cards \ {Count(0)},
        d \in {None, Text("a party")}}

\* sh:in against the type sources and the array wrapping
PropsIn ==
    {[NoConstraint EXCEPT !.in = Some(l), !.hasValue = hv, !.or = o,
                          !.datatype = dt, !.node = n, !.maxCount = mx,
                          !.description = d] :
        l \in InLists,
        hv \in {None, Some(Lit(PyStr(<<"x">>))), Some(Lit(PyBool(TRUE)))},
        o \in {None} \cup {Some(l2) : l2 \in OrLists},
        dt \in {None, Some("boolean"), Some("string")},
        n \in {None, Some(Ex2("Party"))},
        mx \in {None, Count(MaxCard)},
        d \in {None, Text("a party")}}

\* value constraints and unconvertible constructs
PropsBounds ==
    {[NoConstraint EXCEPT !.pattern = p, !.minInclusive = b, !.maxLength = len,
                          !.sparql = q, !.xone = x, !.and = a,
                          !.datatype = dt, !.class = c, !.message = m,
                          !.maxCount = mx] :
        p \in {None, Text("[a-z]+")},
        b \in {None, Count(0), Some(PyInt(5)), Some(<<"decimal", 5>>)},
        len \in {None, Count(0), Count(3)},
        q \in BOOLEAN, x \in BOOLEAN, a \in BOOLEAN,
        dt \in {None, Some("decimal"), Some("dateTime")},
        c \in {None, Some(Ex1("PartyClass")), Some(Ex1("Unknown"))},
        m \in {None, Text("must be a party")},
        mx \in {None, Count(MaxCard)}}

\* other literals and node kinds as the only type source
PropsKinds ==
    {[NoConstraint EXCEPT !.hasValue = hv, !.nodeKind = nk, !.path = pa,
                          !.minCount = mn, !.maxCount = mx] :
        hv \in {None, Some(Lit(PyInt(5))), Some(Lit(<<"decimal", 5>>)),
                Some(Lit(PyStr(<<"x">>))), Some(BNode(<<"b0">>))},
        nk \in {None, Some("IRI"), Some("Literal"), Some("BlankNode"),
                Some("BlankNodeOrIRI"), Some("IRIOrLiteral"),
                Some("BlankNodeOrLiteral"), Some("Other")},
        pa \in {None, Some(Ex1("code")), Some(Ex2("code")), Some(<<"b1">>)},
        mn \in {None, Count(1)}, mx \in {None, Count(MaxCard)}}

\* the scenario of the specification: ex:qty, xsd:integer, 0..5
PropsScenarios ==
    {[NoConstraint EXCEPT !.path = Some(Ex1("qty")), !.datatype = Some("integer"),
                          !.minCount = Count(0), !.maxCount = Count(5)]}

\* sh:node of one shape beside sh:class of the class of another
PropsPrecedence ==
    {[NoConstraint EXCEPT !.node = Some(Ex1("Org")), !.class = c,
                          !.nodeKind = nk, !.maxCount = mx, !.description = d] :
        c \in {None, Some(Ex1("PartyClass")), Some(Ex1("Unknown"))},
        nk \in {None, Some("IRI")},
        mx \in {None, Count(MaxCard)},
        d \in {None, Text("a party")}}

PropShapes == PropsTypes \cup PropsIn \cup PropsBounds \cup PropsKinds
              \cup PropsScenarios \cup PropsPrecedence

\* the property shapes run under every naming strategy: those that resolve
\* a second IRI (sh:hasValue) or another path
NamingMatters(ps) ==
    \/ ps \in PropsKinds
    \/ ps.hasValue # None /\ ps.hasValue[1][1] = "iri"

Bindings == << << <<"ex1">>, Ns1 >>, << <<"ex2">>, Ns2 >> >>

\* the @context of the JSON-LD file: (term, value) in document order
ContextEntries ==
    << << <<"ex1">>, Ns1 >>,
       << <<"code">>, <<"ex1", ":", "code">> >>,
       << <<"code2">>, Ex2("code") >>,
       << <<"alias">>, Ex2("code") >> >>

(***************************************************************************)
(* A run of _convert_property_shape on one property shape, from a          *)
(* converter whose class index and naming tables are already built.        *)
(***************************************************************************)
NoDefinitions == [keys |-> <<>>, map |-> EmptyDict]

InitProp ==
    /\ pc = "property"
    /\ prop_shape \in PropShapes
    /\ prop_result = None
    /\ naming \in IF NamingMatters(prop_shape)
                   THEN {"local", "curie", "context"} ELSE {"curie"}
    /\ iri_to_term = IF naming = "context"
                     THEN LoadJsonldContextInverse(ContextEntries) ELSE EmptyDict
    /\ graph = [shapes |-> {}, imports |-> {}, namespaces |-> Bindings]
    /\ class_to_shape_map = PropC2S
    /\ args = None
    /\ files = EmptyDict
    /\ visited = {}
    /\ stack = <<>>
    /\ orch = None
    /\ loaded = <<>>
    /\ walk = None
    /\ node_shapes = <<>>
    /\ shape_idx = 0
    /\ definitions = NoDefinitions
    /\ warnings = <<>>
    /\ schema = None
    /\ output = None
    /\ exit_code = None

CallConvertPropertyShape ==
    /\ pc = "property"
    /\ LET r == ConvertPropertyShape(prop_shape, class_to_shape_map)
       IN  /\ prop_result' = Some([name |-> r.name, def |-> r.def,
                                   required |-> r.required])
           /\ warnings' = warnings \o r.warnings
    /\ pc' = "property_done"
    /\ UNCHANGED <<args, files, graph, visited, stack, naming, iri_to_term,
                   class_to_shape_map, node_shapes, shape_idx, definitions,
                   schema, output, exit_code, prop_shape>>
    /\ UNCHANGED <<orch, loaded, walk>>

NextProp == CallConvertPropertyShape

SpecProp == InitProp /\ [][NextProp]_vars

\* the property shape converted and the schema returned for it
Converted == pc = "property_done" /\ prop_result[1].name # None
Emitted == prop_result[1].def
MaxCountOf(ps) == IF ps.maxCount = None THEN 0 ELSE ps.maxCount[1][2]
MinCountOf(ps) == IF ps.minCount = None THEN 0 ELSE ps.minCount[1][2]
IsArrayCardinality(ps) == MaxCountOf(ps) > 1 \/ MinCountOf(ps) > 1

(***************************************************************************)
(* main(): the steps of a run of the converter process.                    *)
(***************************************************************************)
\* mutant: a remote IRI is read as a path
ResolveRemoteAsPath(imported, base_dir) ==
    IF imported.scheme = "file" \/ imported.absolute THEN <<imported.path>>
    ELSE <<base_dir \o imported.path>>

\* resolve_import_path followed by Path.resolve(): None for a remote import
ResolveImportPath(imported, base_dir) ==
    IF imported.scheme \in {"http", "https"} THEN None
    ELSE IF imported.scheme = "file" \/ imported.absolute THEN Some(imported.path)
    ELSE Some(base_dir \o imported.path)

ParentOf(path) == SubSeq(path, 1, Len(path) - 1)

\* graph.parse(): the triples of the file join the graph
Parsed(g, file) ==
    [shapes |-> g.shapes \cup file.shapes,
     imports |-> g.imports \cup file.imports,
     namespaces |-> g.namespaces]

\* the exit of the process: sys.exit(status)
Exit(status) ==
    /\ exit_code' = Some(status)
    /\ pc' = "done"

\* a file main() has handled: parsed into the graph, rejected by
\* graph.parse, or found missing
Handled(path, outcome) == [path |-> path, outcome |-> outcome]

\* mutant: the visited set is not consulted
NeverVisited(import_path_abs, seen) == FALSE

\* line 903: import_path_abs in visited
IsVisited(import_path_abs, seen) == import_path_abs \in seen

\* lines 851-855
CheckInput ==
    /\ pc = "start"
    /\ IF args.input \in DOMAIN files
       THEN pc' = "parse" /\ UNCHANGED exit_code
       ELSE Exit(1)
    /\ UNCHANGED <<args, files, graph, visited, stack, naming, iri_to_term,
                   class_to_shape_map, node_shapes, shape_idx, definitions,
                   warnings, schema, output, prop_shape, prop_result>>
    /\ UNCHANGED <<orch, loaded, walk>>

\* lines 859-865 and 922: the root file is parsed; a failure is fatal
ParseRoot ==
    /\ pc = "parse"
    /\ IF files[args.input].parsable
       THEN /\ graph' = Parsed(graph, files[args.input])
            /\ loaded' = <<Handled(args.input, "parsed")>>
            /\ visited' = {args.input}
            /\ stack' = <<[base_file |-> args.input, todo |-> graph'.imports]>>
            /\ pc' = "imports"
            /\ UNCHANGED exit_code
       ELSE /\ Exit(1)
            /\ loaded' = <<Handled(args.input, "failed")>>
            /\ UNCHANGED <<graph, visited, stack>>
    /\ UNCHANGED <<args, files, naming, iri_to_term, class_to_shape_map,
                   node_shapes, shape_idx, definitions, warnings, schema,
                   output, prop_shape, prop_result>>
    /\ UNCHANGED <<orch, walk>>

\* lines 889-920: one iteration of the loop of the innermost call of
\* load_imports_recursive, over the owl:imports objects listed at its start
LoadImport ==
    /\ pc = "imports"
    /\ stack # <<>>
    /\ Len(stack) <= MaxDepth
    /\ LET call == stack[Len(stack)]
       IN  \E imported \in call.todo :
             LET rest == [stack EXCEPT ![Len(stack)].todo = @ \ {imported}]
                 import_path == ResolveImportPath(imported, ParentOf(call.base_file))
             IN  IF imported.kind # "iri" \/ import_path = None
                    \/ IsVisited(import_path[1], visited)
                 THEN /\ stack' = rest
                      /\ UNCHANGED <<graph, visited, loaded>>
                 ELSE IF import_path[1] \notin DOMAIN files
                 THEN /\ stack' = rest
                      /\ visited' = visited \cup {import_path[1]}
                      /\ loaded' = Append(loaded, Handled(import_path[1], "missing"))
                      /\ UNCHANGED graph
                 ELSE IF ~files[import_path[1]].parsable
                 THEN /\ stack' = rest
                      /\ visited' = visited \cup {import_path[1]}
                      /\ loaded' = Append(loaded, Handled(import_path[1], "failed"))
                      /\ UNCHANGED graph
                 ELSE /\ graph' = Parsed(graph, files[import_path[1]])
                      /\ visited' = visited \cup {import_path[1]}
                      /\ loaded' = Append(loaded, Handled(import_path[1], "parsed"))
                      /\ stack' = Append(rest, [base_file |-> import_path[1],
                                                todo |-> graph'.imports])
    /\ UNCHANGED <<pc, args, files, naming, iri_to_term, class_to_shape_map,
                   node_shapes, shape_idx, definitions, warnings, schema,
                   output, exit_code, prop_shape, prop_result>>
    /\ UNCHANGED <<orch, walk>>

\* the loop of the innermost call is over: it returns; the outermost call
\* returns to main (line 923)
ReturnFromImports ==
    /\ pc = "imports"
    /\ stack # <<>>
    /\ stack[Len(stack)].todo = {}
    /\ stack' = SubSeq(stack, 1, Len(stack) - 1)
    /\ pc' = IF Len(stack) = 1 THEN "construct" ELSE "imports"
    /\ UNCHANGED <<args, files, graph, visited, naming, iri_to_term,
                   class_to_shape_map, node_shapes, shape_idx, definitions,
                   warnings, schema, output, exit_code, prop_shape, prop_result>>
    /\ UNCHANGED <<orch, loaded, walk>>

\* mutant: an unusable @context is not an error
ConstructorRaisesOnMissingOnly(a) ==
    a.naming = "context" /\ a.context = "none"

\* __init__ (lines 56-59) and _load_jsonld_context_inverse (lines 745-753):
\* the ValueError of naming=context without a usable @context
ConstructorRaises(a) ==
    a.naming = "context" /\ a.context \in {"none", "unreadable", "invalid"}

\* lines 929-938
Construct ==
    /\ pc = "construct"
    /\ IF ConstructorRaises(args)
       THEN /\ Exit(1)
            /\ UNCHANGED <<naming, iri_to_term>>
       ELSE /\ naming' = args.naming
            /\ iri_to_term' = IF args.naming = "context" /\ args.context = "ok"
                              THEN LoadJsonldContextInverse(ContextEntries)
                              ELSE EmptyDict
            /\ pc' = "convert"
            /\ UNCHANGED exit_code
    /\ UNCHANGED <<args, files, graph, visited, stack, class_to_shape_map,
                   node_shapes, shape_idx, definitions, warnings, schema,
                   output, prop_shape, prop_result>>
    /\ UNCHANGED <<orch, loaded, walk>>

\* the orders in which a set can be iterated
Orderings(S) ==
    {order \in [1..Cardinality(S) -> S] :
        \A i, j \in 1..Cardinality(S) : order[i] = order[j] => i = j}

\* convert(), lines 91-100: the node shapes in the order the graph yields
\* them; without any, the placeholder schema is returned
ConvertBegin ==
    /\ pc = "convert"
    /\ \E order \in Orderings(graph.shapes) :
         /\ node_shapes' = order
         /\ IF order = <<>>
            THEN /\ schema' = Some(CreateEmptySchema)
                 /\ pc' = "write"
                 /\ UNCHANGED class_to_shape_map
            ELSE /\ class_to_shape_map' = BuildClassToShapeMap(order, class_to_shape_map)
                 /\ pc' = "shapes"
                 /\ UNCHANGED schema
    /\ UNCHANGED <<args, files, graph, visited, stack, naming, iri_to_term,
                   shape_idx, definitions, warnings, output, exit_code,
                   prop_shape, prop_result>>
    /\ UNCHANGED <<orch, loaded, walk>>

\* convert(), lines 103-104: _convert_node_shape of the next node shape
ConvertNodeShape ==
    /\ pc = "shapes"
    /\ shape_idx < Len(node_shapes)
    /\ \E r \in {NodeShapeDefinition(node_shapes[shape_idx + 1], class_to_shape_map)} :
         /\ definitions' = StoreDefinition(definitions, r.def.title, r.def)
         /\ warnings' = warnings \o r.warnings
    /\ shape_idx' = shape_idx + 1
    /\ UNCHANGED <<pc, args, files, graph, visited, stack, naming, iri_to_term,
                   class_to_shape_map, node_shapes, schema, output, exit_code,
                   prop_shape, prop_result>>
    /\ UNCHANGED <<orch, loaded, walk>>

\* convert(), lines 106-117: the document is assembled and returned
ConvertEnd ==
    /\ pc = "shapes"
    /\ shape_idx = Len(node_shapes)
    /\ schema' = Some(CreateMainSchema(definitions))
    /\ pc' = "write"
    /\ UNCHANGED <<args, files, graph, visited, stack, naming, iri_to_term,
                   class_to_shape_map, node_shapes, shape_idx, definitions,
                   warnings, output, exit_code, prop_shape, prop_result>>
    /\ UNCHANGED <<orch, loaded, walk>>

\* json.dump: a document that holds a value json cannot encode raises
\* TypeError; such a value can only be the const of sh:hasValue
RECURSIVE RaisesTypeError(_)
RaisesTypeError(d) ==
    \/ Has(d, "const") /\ d["const"][1] = "bytes"
    \/ Has(d, "items") /\ RaisesTypeError(d["items"])
    \/ Has(d, "not") /\ RaisesTypeError(d["not"])
    \/ Has(d, "properties")
         /\ \E term \in DOMAIN d["properties"] : RaisesTypeError(d["properties"][term])
    \/ \E key \in {"anyOf", "allOf", "oneOf"} \cap DOMAIN d :
           \E i \in 1..Len(d[key]) : RaisesTypeError(d[key][i])
    \/ Has(d, "$defs")
         /\ \E name \in DOMAIN d["$defs"].map : RaisesTypeError(d["$defs"].map[name])

\* the file left by a json.dump that raised: the text encoded before the
\* value that cannot be encoded
Truncated == [truncated |-> TRUE]

\* lines 941-947: the output file is opened and json.dump writes the
\* document into it; an exception of json.dump ends the process (status 1)
WriteOutput ==
    /\ pc = "write"
    /\ IF RaisesTypeError(schema[1])
       THEN /\ output' = Some(Truncated)
            /\ Exit(1)
       ELSE /\ output' = schema
            /\ pc' = "written"
            /\ UNCHANGED exit_code
    /\ UNCHANGED <<args, files, graph, visited, stack, naming, iri_to_term,
                   class_to_shape_map, node_shapes, shape_idx, definitions,
                   warnings, schema, prop_shape, prop_result>>
    /\ UNCHANGED <<orch, loaded, walk>>

\* lines 951-953: status 2 when warnings were recorded, else the normal end
Finish ==
    /\ pc = "written"
    /\ Exit(IF warnings # <<>> THEN 2 ELSE 0)
    /\ UNCHANGED <<args, files, graph, visited, stack, naming, iri_to_term,
                   class_to_shape_map, node_shapes, shape_idx, definitions,
                   warnings, schema, output, prop_shape, prop_result>>
    /\ UNCHANGED <<orch, loaded, walk>>

\* convert(), lines 103-104: the loop over node_shapes
RECURSIVE ConvertShapes(_, _, _)
ConvertShapes(shapes, c2s, defs) ==
    IF shapes = <<>> THEN defs
    ELSE ConvertShapes(Tail(shapes), c2s,
             StoreDefinition(defs, GetLocalName(Head(shapes).id),
                             NodeShapeDefinition(Head(shapes), c2s).def))

\* convert(): the document returned when the graph yields its node shapes
\* in the given order
ConvertAll(order) ==
    IF order = <<>> THEN CreateEmptySchema
    ELSE CreateMainSchema(
             ConvertShapes(order, BuildClassToShapeMap(order, EmptyDict),
                           NoDefinitions))

Next ==
    \/ CheckInput
    \/ ParseRoot
    \/ LoadImport
    \/ ReturnFromImports
    \/ Construct
    \/ ConvertBegin
    \/ ConvertNodeShape
    \/ ConvertEnd
    \/ WriteOutput
    \/ Finish

(***************************************************************************)
(* The runs of main(): command lines, files and the shapes in them.        *)
(***************************************************************************)
\* a node shape with no triple but its rdf:type
NoShape ==
    [id |-> Ex1("Party"), name |-> None, description |-> None,
     targetClass |-> None, props |-> <<>>, or |-> None, and |-> None,
     closed |-> None]

\* property shapes of a node shape: two paths of one local name, or no path
MainProps ==
    {[NoConstraint EXCEPT !.path = pa, !.datatype = dt, !.minCount = mn] :
        pa \in {None, Some(Ex1("code")), Some(Ex2("code"))},
        dt \in {Some("string"), Some("integer")},
        mn \in Cards}

\* a graph of one node shape with up to two property shapes
OneShapeGraphs ==
    {{[NoShape EXCEPT !.targetClass = tc, !.props = ps]} :
        tc \in {None, Some(Ex1("PartyClass"))},
        ps \in {<<>>} \cup {<<p>> : p \in MainProps}
               \cup {<<p, q>> : p \in MainProps, q \in MainProps}}

\* node shapes of several namespaces: two of one local name and one class,
\* one that refers to the class, one whose property path is a namespace IRI
ShapePool ==
    {[NoShape EXCEPT !.targetClass = Some(Ex1("PartyClass")),
                     !.props = <<[NoConstraint EXCEPT !.datatype = Some("string"),
                                                      !.minCount = Count(1)]>>],
     [NoShape EXCEPT !.id = Ex2("Party"),
                     !.targetClass = Some(Ex1("PartyClass")),
                     !.description = Text("a party"),
                     !.props = <<[NoConstraint EXCEPT !.path = Some(Ex1("name")),
                                                      !.datatype = Some("integer")]>>],
     [NoShape EXCEPT !.id = Ex1("Org"), !.name = Text("Organisation"),
                     !.closed = Text("true"),
                     !.props = <<[NoConstraint EXCEPT !.path = Some(Ex1("party")),
                                                      !.class = Some(Ex1("PartyClass"))]>>],
     [NoShape EXCEPT !.id = Ex2("Site"),
                     !.props = <<[NoConstraint EXCEPT !.path = Some(Ns1),
                                                      !.datatype = Some("string"),
                                                      !.minCount = Count(1)]>>]}

ManyShapeGraphs == SUBSET ShapePool

\* the node shape Party of class ex1:Party with a required xsd:string name,
\* alone and with a second sh:targetClass object (targetClass holds the
\* objects in the order the store yields them: graph.value returns the first)
TargetClassGraphs ==
    {{[NoShape EXCEPT !.targetClass = tc,
                      !.props = <<[NoConstraint EXCEPT !.path = Some(Ex1("name")),
                                                       !.datatype = Some("string"),
                                                       !.minCount = Count(1)]>>]} :
        tc \in {<<Ex1("Party")>>, <<Ex1("Party"), Ex2("Org")>>}}

\* constraint nodes of node-level sh:or, sh:and and sh:not
Inline(props, nots) ==
    [kind |-> "bnode", id |-> <<"b2">>, props |-> props, not |-> nots]
ShapeRef(id) == [kind |-> "iri", id |-> id, props |-> <<>>, not |-> <<>>]

CodeString == [NoConstraint EXCEPT !.datatype = Some("string")]
NameOnly == [NoConstraint EXCEPT !.path = Some(Ex1("name")), !.minCount = Count(1)]

NodeLists ==
    {MkList(<<Inline(<<CodeString>>, <<>>), Inline(<<NameOnly>>, <<>>)>>),
     MkList(<<ShapeRef(Ex1("Org")), ShapeRef(Ex1("Party")),
              Inline(<<>>, <<Inline(<<CodeString>>, <<>>)>>)>>),
     MkList(<<Inline(<<>>, <<>>)>>)}

\* property shapes of one path: no type source, and sh:nodeKind sh:IRI
CodeBare == NoConstraint
CodeKind == [NoConstraint EXCEPT !.nodeKind = Some("IRI")]

\* a node shape whose sh:or alternatives declare the same property, in both
\* orders
OrMergeGraphs ==
    {{[NoShape EXCEPT !.or = Some(MkList(<<Inline(<<p>>, <<>>), Inline(<<q>>, <<>>)>>))]} :
        p \in {CodeBare, CodeKind, CodeString},
        q \in {CodeBare, CodeKind, CodeString}}

\* two node shapes, each with one property shape that may carry sh:xone,
\* sh:and and sh:sparql, typed or not, scalar or array
UnconvertibleProps ==
    {[NoConstraint EXCEPT !.xone = x, !.and = a, !.sparql = q, !.datatype = dt,
                          !.maxCount = mx] :
        x \in BOOLEAN, a \in BOOLEAN, q \in BOOLEAN,
        dt \in {None, Some("string")}, mx \in {None, Count(MaxCard)}}

UnconvertibleGraphs ==
    {{[NoShape EXCEPT !.props = <<p>>],
      [NoShape EXCEPT !.id = Ex1("Org"),
                      !.props = <<[NoConstraint EXCEPT !.path = Some(Ex1("name")),
                                                       !.xone = TRUE, !.sparql = TRUE]>>]} :
        p \in UnconvertibleProps}

\* a node shape that refers by sh:node and by an IRI member of sh:and to a
\* node shape of the graph, or to an IRI that is not one
ReferenceGraphs ==
    {{[NoShape EXCEPT !.props = <<[NoConstraint EXCEPT !.node = Some(n)]>>, !.and = a],
      [NoShape EXCEPT !.id = Ex1("Org"), !.props = <<NameOnly>>]} :
        n \in {Ex1("Org"), Ex1("Missing")},
        a \in {None, Some(MkList(<<ShapeRef(Ex1("Org"))>>)),
               Some(MkList(<<ShapeRef(Ex1("Missing"))>>))}}

\* a node shape with sh:or and sh:and, next to the shape they refer to
LogicalGraphs ==
    {{[NoShape EXCEPT !.props = ps, !.or = o, !.and = a],
      [NoShape EXCEPT !.id = Ex1("Org"), !.props = <<NameOnly>>]} :
        ps \in {<<>>, <<[NoConstraint EXCEPT !.minCount = Count(1)]>>},
        o \in {None} \cup {Some(l) : l \in NodeLists},
        a \in {None} \cup {Some(l) : l \in NodeLists}}

\* a node shape whose property has sh:hasValue "0A"^^xsd:hexBinary
BinaryGraphs ==
    {{[NoShape EXCEPT !.props =
          <<[NoConstraint EXCEPT !.hasValue = Some(Lit(PyBytes(<<"0A">>))),
                                 !.in = i, !.maxCount = mx, !.sparql = q]>>]} :
        i \in {None, Some(MkList(<<Lit(PyBytes(<<"0A">>))>>))},
        mx \in {None, Count(MaxCard)}, q \in BOOLEAN}

\* paths of the file system
RootFile == <<"shapes", "root.ttl">>
BadFile == <<"shapes", "bad.ttl">>
MissingFile == <<"shapes", "missing.ttl">>
ImportedFile == <<"shapes", "a.ttl">>
NestedFile == <<"shapes", "sub", "b.ttl">>
\* where the remote IRI would point if it were read as a relative path
ShadowFile == <<"shapes", "ex1">>

\* objects of owl:imports triples
Relative(path) == [kind |-> "iri", scheme |-> "", absolute |-> FALSE, path |-> path]
Absolute(path) == [kind |-> "iri", scheme |-> "", absolute |-> TRUE, path |-> path]
FileUri(path) == [kind |-> "iri", scheme |-> "file", absolute |-> TRUE, path |-> path]
Remote == [kind |-> "iri", scheme |-> "https", absolute |-> FALSE, path |-> <<"ex1">>]
NotAnIri == [kind |-> "literal", scheme |-> "", absolute |-> FALSE, path |-> <<"a.ttl">>]

Turtle(shapes, imports) == [parsable |-> TRUE, shapes |-> shapes, imports |-> imports]
Garbage == [parsable |-> FALSE, shapes |-> {}, imports |-> {}]

\* a root file without owl:imports, next to a file that is not Turtle
PlainFiles(shapes) == (RootFile :> Turtle(shapes, {})) @@ (BadFile :> Garbage)

PartyShape == [NoShape EXCEPT !.props = <<CodeString>>]
OrgShape == [NoShape EXCEPT !.id = Ex1("Org"), !.props = <<NameOnly>>]

\* root files with owl:imports: a chain with a cycle back to the root, and
\* imports that are remote, missing, not Turtle or not an IRI
ImportFiles ==
    {(RootFile :> Turtle({PartyShape}, {Relative(<<"a.ttl">>), Remote}))
        @@ (ImportedFile :> Turtle({OrgShape}, {Relative(<<"sub", "b.ttl">>)}))
        @@ (NestedFile :> Turtle({}, {FileUri(RootFile)})),
     (RootFile :> Turtle({PartyShape}, {Absolute(BadFile), NotAnIri,
                                        Relative(<<"missing.ttl">>)}))
        @@ (BadFile :> Garbage),
     (RootFile :> Turtle({}, {Absolute(ImportedFile)}))
        @@ (ImportedFile :> Turtle({OrgShape}, {})),
     (RootFile :> Turtle({PartyShape}, {Relative(<<"a.ttl">>),
                                        Relative(<<"sub", "b.ttl">>), Remote}))
        @@ (ImportedFile :> Turtle({}, {Relative(<<"a.ttl">>),
                                        Absolute(NestedFile), Absolute(BadFile)}))
        @@ (NestedFile :> Turtle({OrgShape}, {Absolute(BadFile)}))
        @@ (BadFile :> Garbage)
        @@ (ShadowFile :> Turtle({[NoShape EXCEPT !.id = Ex2("Site")]}, {}))}

Namings == {"local", "curie", "context"}
Contexts == {"none", "unreadable", "invalid", "ok"}

Args(input, n, context) == [input |-> input, naming |-> n, context |-> context]

\* runs that convert: every graph under every naming strategy
ConvertingRuns ==
    {[args |-> Args(RootFile, n, IF n = "context" THEN "ok" ELSE "none"),
      files |-> PlainFiles(g)] :
        n \in Namings,
        g \in OneShapeGraphs \cup ManyShapeGraphs \cup LogicalGraphs
              \cup BinaryGraphs \cup TargetClassGraphs \cup OrMergeGraphs
              \cup UnconvertibleGraphs \cup ReferenceGraphs}

\* runs over every command line: root file and @context usable or not
CommandLineRuns ==
    {[args |-> Args(input, n, context), files |-> PlainFiles({PartyShape})] :
        input \in {RootFile, BadFile, MissingFile}, n \in Namings,
        context \in Contexts}

ImportingRuns ==
    {[args |-> Args(RootFile, "curie", "none"), files |-> f] : f \in ImportFiles}

Runs == ConvertingRuns \cup CommandLineRuns \cup ImportingRuns

Init ==
    /\ pc = "start"
    /\ \E run \in Runs : args = run.args /\ files = run.files
    /\ graph = [shapes |-> {}, imports |-> {}, namespaces |-> Bindings]
    /\ visited = {}
    /\ stack = <<>>
    /\ orch = None
    /\ loaded = <<>>
    /\ walk = None
    /\ naming = "curie"
    /\ iri_to_term = EmptyDict
    /\ class_to_shape_map = EmptyDict
    /\ node_shapes = <<>>
    /\ shape_idx = 0
    /\ definitions = NoDefinitions
    /\ warnings = <<>>
    /\ schema = None
    /\ output = None
    /\ exit_code = None
    /\ prop_shape = NoConstraint
    /\ prop_result = None

Spec == Init /\ [][Next]_vars

\* the runs over root files with owl:imports; a process that can take a step
\* takes it
InitLoading == Init /\ [args |-> args, files |-> files] \in ImportingRuns

SpecLoading == InitLoading /\ [][Next]_vars /\ WF_vars(Next)

(***************************************************************************)
(* The orchestrators: ontology_cli "convert json-schema" and autogenerate, *)
(* which run the converter as a child process and read its exit status.    *)
(***************************************************************************)
\* exit statuses subprocess.run can report for a child: those of the
\* converter, another failure status, and the negative status of a child
\* ended by a signal
ChildStatuses == {-9, 0, 1, 2, 3}

\* a scenario of config.yml and the statuses its child processes will end
\* with: the converter, and the JSON-Schema-to-TypeScript step
Scenario(configured, status, ts_status) ==
    [configured |-> configured, status |-> status, ts_status |-> ts_status]

CliScenarios == {Scenario(c, st, 0) : c \in BOOLEAN, st \in ChildStatuses}
Artifacts ==
    {Scenario(TRUE, st, ts) : st \in ChildStatuses, ts \in {0, 1, 2}}
    \cup {Scenario(FALSE, 0, 0)}

OrchestratorRun(tool, children) ==
    [tool |-> tool, children |-> children, idx |-> 0, worst_exit |-> 0,
     success |-> TRUE, launched |-> <<>>, result |-> None]

OrchestratorRuns ==
    {OrchestratorRun("scenario", <<a>>) : a \in CliScenarios}
    \cup {OrchestratorRun("all", <<a>>) : a \in CliScenarios}
    \cup {OrchestratorRun("all", <<a, b>>) : a \in CliScenarios, b \in CliScenarios}
    \cup {OrchestratorRun("autogenerate", <<a>>) : a \in Artifacts}
    \cup {OrchestratorRun("autogenerate", <<a, b>>) : a \in Artifacts, b \in Artifacts}

Max(a, b) == IF a >= b THEN a ELSE b

\* ontology_cli, lines 575-578 (and 605-606): status 2 of the child is
\* returned as 0, any other status as it is
WarningsAsSuccess(returncode) == IF returncode = 2 THEN 0 ELSE returncode

OtherVarsUnchanged ==
    UNCHANGED <<pc, args, files, graph, visited, stack, loaded, naming,
                iri_to_term, class_to_shape_map, node_shapes, shape_idx, definitions,
                warnings, schema, output, exit_code, prop_shape, prop_result,
                walk>>

\* ontology_cli, lines 541-578: one scenario; a scenario without input,
\* output or the context naming=context needs returns 1 without a child
CliConvertScenario ==
    /\ orch.tool = "scenario" /\ orch.result = None
    /\ LET scenario == orch.children[1]
       IN  orch' = [orch EXCEPT
               !.idx = 1,
               !.launched = IF scenario.configured THEN << {"shacl"} >> ELSE << {} >>,
               !.result = IF scenario.configured
                          THEN Some(WarningsAsSuccess(scenario.status))
                          ELSE Some(1)]
    /\ OtherVarsUnchanged

\* ontology_cli, lines 620-654: one iteration of the loop over all scenarios
CliConvertAllScenario ==
    /\ orch.tool = "all" /\ orch.idx < Len(orch.children)
    /\ LET scenario == orch.children[orch.idx + 1]
       IN  orch' = [orch EXCEPT
               !.idx = @ + 1,
               !.launched = Append(@, IF scenario.configured THEN {"shacl"} ELSE {}),
               !.worst_exit = IF scenario.configured
                              THEN Max(@, WarningsAsSuccess(scenario.status))
                              ELSE Max(@, 1)]
    /\ OtherVarsUnchanged

\* ontology_cli, line 656
CliConvertAllReturn ==
    /\ orch.tool = "all" /\ orch.idx = Len(orch.children) /\ orch.result = None
    /\ orch' = [orch EXCEPT !.result = Some(orch.worst_exit)]
    /\ OtherVarsUnchanged

\* autogenerate, TypeScriptGenerator._run_command: statuses 0 and 2 are
\* a success
RunCommand(returncode) == returncode \in {0, 2}

\* autogenerate, TypeScriptGenerator.run, lines 81-104: one artifact; one
\* that cannot be resolved runs nothing, a failed step 1 skips step 2
AutogenerateArtifact ==
    /\ orch.tool = "autogenerate" /\ orch.idx < Len(orch.children)
    /\ LET config == orch.children[orch.idx + 1]
       IN  orch' = [orch EXCEPT
               !.idx = @ + 1,
               !.launched = Append(@,
                   IF ~config.configured THEN {}
                   ELSE IF ~RunCommand(config.status) THEN {"shacl"}
                   ELSE {"shacl", "ts"}),
               !.success = @ /\ config.configured /\ RunCommand(config.status)
                           /\ RunCommand(config.ts_status)]
    /\ OtherVarsUnchanged

\* autogenerate, run (line 112) and main (line 300)
AutogenerateReturn ==
    /\ orch.tool = "autogenerate" /\ orch.idx = Len(orch.children)
    /\ orch.result = None
    /\ orch' = [orch EXCEPT !.result = Some(IF orch.success THEN 0 ELSE 1)]
    /\ OtherVarsUnchanged

InitOrch ==
    /\ pc = "orchestrator"
    /\ orch \in OrchestratorRuns
    /\ loaded = <<>>
    /\ walk = None
    /\ args = None
    /\ files = EmptyDict
    /\ graph = [shapes |-> {}, imports |-> {}, namespaces |-> Bindings]
    /\ visited = {}
    /\ stack = <<>>
    /\ naming = "curie"
    /\ iri_to_term = EmptyDict
    /\ class_to_shape_map = EmptyDict
    /\ node_shapes = <<>>
    /\ shape_idx = 0
    /\ definitions = NoDefinitions
    /\ warnings = <<>>
    /\ schema = None
    /\ output = None
    /\ exit_code = None
    /\ prop_shape = NoConstraint
    /\ prop_result = None

NextOrch ==
    \/ CliConvertScenario
    \/ CliConvertAllScenario
    \/ CliConvertAllReturn
    \/ AutogenerateArtifact
    \/ AutogenerateReturn

SpecOrch == InitOrch /\ [][NextOrch]_vars

(***************************************************************************)
(* _extract_list_nodes / _extract_list_values step by step: one pass of    *)
(* the while loop per step, on every list the graph can hold, well formed  *)
(* or not. WalkList above is this loop on the lists on which it ends.      *)
(***************************************************************************)
Member == Lit(PyStr(<<"a">>))

\* the lists of up to MaxCells cells: rdf:first present or not, rdf:rest a
\* cell, rdf:nil (0) or absent (-1)
WalkLists ==
    UNION {[1..n -> [first : {None, Some(Member)}, rest : {-1, 0} \cup 1..n]] :
              n \in 0..MaxCells}

\* everything that is not the walk, as a converter holds it
Converter ==
    /\ args = None
    /\ files = EmptyDict
    /\ graph = [shapes |-> {}, imports |-> {}, namespaces |-> Bindings]
    /\ visited = {}
    /\ stack = <<>>
    /\ orch = None
    /\ loaded = <<>>
    /\ naming = "curie"
    /\ iri_to_term = EmptyDict
    /\ class_to_shape_map = EmptyDict
    /\ node_shapes = <<>>
    /\ shape_idx = 0
    /\ definitions = NoDefinitions
    /\ warnings = <<>>
    /\ schema = None
    /\ output = None
    /\ exit_code = None
    /\ prop_shape = NoConstraint
    /\ prop_result = None

ConverterUnchanged ==
    UNCHANGED <<args, files, graph, visited, stack, orch, loaded, naming,
                iri_to_term, class_to_shape_map, node_shapes, shape_idx,
                definitions, warnings, schema, output, exit_code, prop_shape,
                prop_result>>

\* lines 619-620: nodes = [], current = list_node
InitList ==
    /\ pc = "list"
    /\ \E cells \in WalkLists :
          walk = [cells |-> cells, nodes |-> <<>>,
                  current |-> IF cells = <<>> THEN 0 ELSE 1]
    /\ Converter

\* lines 622-631: one pass of the loop: rdf:first is appended when present,
\* rdf:rest becomes current, and the loop is left when there is no rdf:rest.
\* A pass on a cell without rdf:first whose rdf:rest is the cell itself
\* leaves nodes and current as they were: the loop then runs for ever in
\* one state.
ListStep ==
    /\ pc = "list"
    /\ walk.current # 0
    /\ LET cell == walk.cells[walk.current]
       IN  /\ Len(walk.nodes) + Len(cell.first) <= MaxMembers
           /\ IF cell.rest = -1
              THEN /\ walk' = [walk EXCEPT !.nodes = @ \o cell.first]
                   /\ pc' = "list_done"
              ELSE /\ walk' = [walk EXCEPT !.nodes = @ \o cell.first,
                                           !.current = cell.rest]
                   /\ pc' = "list"
    /\ ConverterUnchanged

\* line 625 when nodes cannot grow any more (MaxMembers stands for the
\* memory of the process, more than a list without a cycle can fill): the
\* process ends without a list, by an unhandled MemoryError (status 1) or
\* killed by the system (status 137)
ListExhausts ==
    /\ pc = "list"
    /\ walk.current # 0
    /\ Len(walk.nodes) + Len(walk.cells[walk.current].first) > MaxMembers
    /\ pc' = "done"
    /\ exit_code' \in {Some(1), Some(137)}
    /\ UNCHANGED <<args, files, graph, visited, stack, orch, loaded, naming,
                   iri_to_term, class_to_shape_map, node_shapes, shape_idx,
                   definitions, warnings, schema, output, prop_shape,
                   prop_result, walk>>

\* lines 622, 633: current is rdf:nil, the nodes are returned
ListReturn ==
    /\ pc = "list"
    /\ walk.current = 0
    /\ pc' = "list_done"
    /\ UNCHANGED walk
    /\ ConverterUnchanged

NextList == ListStep \/ ListExhausts \/ ListReturn

\* a loop pass that can be made is made
SpecList == InitList /\ [][NextList]_vars /\ WF_vars(NextList)

(***************************************************************************)
(* _convert_node_constraint_node_to_schema call by call: the descent       *)
(* through the sh:not objects of constraint nodes, on every way the nodes  *)
(* can be linked. NodeConstraintSchema above is this descent on the graphs *)
(* on which it returns; here only the calls are followed, not the schemas. *)
(***************************************************************************)
\* the sh:not objects a constraint node can have, in the order
\* graph.objects yields them
NotObjects ==
    {<<>>} \cup {<<m>> : m \in 1..MaxNots}
    \cup {o \in (1..MaxNots) \X (1..MaxNots) : o[1] < o[2]}

NotGraphs == [1..MaxNots -> NotObjects]

Frame(node) == [node |-> node, handled |-> 0]

\* line 229: _convert_node_shape calls it for an alternative of sh:or
InitNot ==
    /\ pc = "not"
    /\ \E nots \in NotGraphs : walk = [nots |-> nots, frames |-> <<Frame(1)>>]
    /\ Converter

\* the call in progress and the sh:not objects of its node
TopFrame == walk.frames[Len(walk.frames)]
TopObjects == walk.nots[TopFrame.node]

\* lines 348-349: the call for the next sh:not object
NotDescend ==
    /\ pc = "not"
    /\ TopFrame.handled < Len(TopObjects)
    /\ Len(walk.frames) < RecursionLimit
    /\ walk' = [walk EXCEPT !.frames = Append(@, Frame(TopObjects[TopFrame.handled + 1]))]
    /\ UNCHANGED pc
    /\ ConverterUnchanged

\* line 349 at the recursion limit: RecursionError, which neither convert()
\* nor main() (line 939) handles: the process ends with status 1 and
\* nothing written
NotRaise ==
    /\ pc = "not"
    /\ TopFrame.handled < Len(TopObjects)
    /\ Len(walk.frames) = RecursionLimit
    /\ walk' = [walk EXCEPT !.frames = <<>>]
    /\ pc' = "done"
    /\ exit_code' = Some(1)
    /\ UNCHANGED <<args, files, graph, visited, stack, orch, loaded, naming,
                   iri_to_term, class_to_shape_map, node_shapes, shape_idx,
                   definitions, warnings, schema, output, prop_shape, prop_result>>

\* lines 359-363: every sh:not object handled, the call returns to its
\* caller, the first call to _convert_node_shape
NotReturn ==
    /\ pc = "not"
    /\ TopFrame.handled = Len(TopObjects)
    /\ IF Len(walk.frames) = 1
       THEN /\ walk' = [walk EXCEPT !.frames = <<>>]
            /\ pc' = "not_returned"
       ELSE /\ walk' = [walk EXCEPT !.frames =
                           [SubSeq(@, 1, Len(@) - 1) EXCEPT
                               ![Len(@) - 1].handled = @ + 1]]
            /\ UNCHANGED pc
    /\ ConverterUnchanged

NextNot == NotDescend \/ NotRaise \/ NotReturn

\* a call that can go on goes on
SpecNot == InitNot /\ [][NextNot]_vars /\ WF_vars(NextNot)

(***************************************************************************)
(* Properties of property translation (checked under SpecProp).            *)
(***************************************************************************)

\* C2: a property shape with sh:maxCount > 1, whatever else it carries, is
\* emitted as a schema whose type is "array".
C2_MaxCountAboveOneIsArray ==
    (Converted /\ MaxCountOf(prop_shape) > 1)
        => (Has(Emitted, "type") /\ Emitted["type"] = "array")

\* C2 witness: an array emitted for a shape that also has sh:hasValue, sh:or,
\* sh:node and sh:class
C2_Witness ==
    /\ Converted /\ MaxCountOf(prop_shape) > 1
    /\ prop_shape.hasValue # None /\ prop_shape.or # None
    /\ prop_shape.node # None /\ prop_shape.class # None
    /\ Emitted["type"] = "array"

\* the schema of the type source alone, before any post-processing
TypeSourceSchema ==
    PropTypeSchema(prop_shape, prop_result[1].name[1], PropDescription(prop_shape),
                   class_to_shape_map).def

YieldsRefWithDescription ==
    /\ Converted
    /\ Has(TypeSourceSchema, "$ref") /\ Has(TypeSourceSchema, "description")

\* the description and the reference the property shape states
StatedDescription ==
    IF prop_shape.description # None THEN prop_shape.description[1]
    ELSE prop_shape.message[1]
StatedRef ==
    IF prop_shape.node # None THEN <<"#/$defs/">> \o GetLocalName(prop_shape.node[1])
    ELSE <<"#/$defs/">> \o class_to_shape_map[prop_shape.class[1]]

HasValueConstraint(ps) ==
    \/ ps.in # None \/ ps.pattern # None \/ ps.minInclusive # None
    \/ ps.maxInclusive # None \/ ps.minExclusive # None \/ ps.maxExclusive # None
    \/ ps.minLength # None \/ ps.maxLength # None \/ ps.sparql

\* C5: a $ref (from sh:node or a resolved sh:class) on a property shape with a
\* description is rewritten: the $ref leaves the top level of the property
\* schema, the description stays, and the $ref sits alone inside allOf; with
\* nothing else on the shape the schema is exactly {description, allOf}.
C5_RefWithDescriptionRewritten ==
    YieldsRefWithDescription =>
        /\ RefRewrite(TypeSourceSchema)
             = [description |-> StatedDescription,
                allOf |-> << ("$ref" :> StatedRef) >>]
        /\ ~Has(Emitted, "$ref")
        /\ Emitted["description"] = StatedDescription
        /\ ~IsArrayCardinality(prop_shape) =>
             /\ Emitted["allOf"] = << ("$ref" :> StatedRef) >>
             /\ ~HasValueConstraint(prop_shape) =>
                  DOMAIN Emitted = {"description", "allOf"}

\* C5 witness: a resolved sh:class with a description, rewritten
C5_Witness ==
    /\ YieldsRefWithDescription
    /\ prop_shape.node = None /\ prop_shape.class # None
    /\ DOMAIN Emitted = {"description", "allOf"}
    /\ Emitted["allOf"][1]["$ref"] = <<"#/$defs/", "Party">>

\* the schema objects of a property schema that may hold a $ref
SchemaObjects(def) ==
    {def}
    \cup (IF Has(def, "items") THEN {def["items"]} ELSE {})
    \cup (IF Has(def, "allOf") THEN Range(def["allOf"]) ELSE {})
    \cup (IF Has(def, "anyOf") THEN Range(def["anyOf"]) ELSE {})

\* C6: in the emitted property schema, an object that holds $ref holds
\* nothing else.
C6_RefHasNoSibling ==
    Converted =>
        \A obj \in SchemaObjects(Emitted) : Has(obj, "$ref") => DOMAIN obj = {"$ref"}

IsBoolLiteral(term) == term[1] = "lit" /\ term[2][1] = "bool"

\* the term each naming strategy gives http://ex2#code
Ex2CodeTerm ==
    CASE naming = "local" -> <<"code">>
      [] naming = "curie" -> <<"ex2", ":", "code">>
      [] OTHER -> <<"code2">>

\* C7: sh:hasValue without array cardinality gives const and the inferred
\* type whatever other type sources are present: an IRI gives its resolved
\* name and "string", a boolean literal gives the boolean and "boolean".
C7_HasValueConst ==
    (Converted /\ prop_shape.hasValue # None /\ ~IsArrayCardinality(prop_shape)) =>
        LET hv == prop_shape.hasValue[1]
        IN  /\ hv[1] = "iri" =>
                /\ Has(Emitted, "const") /\ Emitted["const"] = PyStr(Ex2CodeTerm)
                /\ Emitted["type"] = "string"
            /\ IsBoolLiteral(hv) =>
                /\ Has(Emitted, "const") /\ Emitted["const"] = PyBool(hv[2][2])
                /\ Emitted["type"] = "boolean"
            /\ (hv[1] = "iri" \/ IsBoolLiteral(hv)) =>
                ~Has(Emitted, "$ref") /\ ~Has(Emitted, "anyOf")

\* C7 witness: sh:hasValue false beside sh:datatype, sh:or, sh:node, sh:class
C7_Witness ==
    /\ Converted /\ ~IsArrayCardinality(prop_shape)
    /\ prop_shape.hasValue = Some(Lit(PyBool(FALSE)))
    /\ prop_shape.datatype = Some("integer") /\ prop_shape.or # None
    /\ prop_shape.node # None /\ prop_shape.class # None
    /\ Emitted["const"] = PyBool(FALSE) /\ Emitted["type"] = "boolean"

TrueFalseLists ==
    {MkList(<<Lit(PyBool(TRUE)), Lit(PyBool(FALSE))>>),
     MkList(<<Lit(PyBool(FALSE)), Lit(PyBool(TRUE))>>)}

BooleanWithTrueFalse(ps) ==
    /\ ps.datatype = Some("boolean")
    /\ ps.in # None /\ ps.in[1] \in TrueFalseLists

NoEnum(def) ==
    /\ ~Has(def, "enum")
    /\ Has(def, "items") => ~Has(def["items"], "enum")

JsonTypeOf(datatype) ==
    CASE datatype = "boolean" -> "boolean"
      [] datatype = "integer" -> "integer"
      [] datatype = "decimal" -> "number"
      [] OTHER -> "string"

DatatypeDecides(ps) == ps.datatype # None /\ ps.hasValue = None /\ ps.or = None

\* C9: a datatype property with sh:maxCount N > 1 is {type: array, items:
\* the scalar schema, maxItems: N}; minItems is there exactly when
\* sh:minCount is at least 1, and is then sh:minCount; ex:qty (xsd:integer,
\* minCount 0, maxCount 5) is exactly {array, items {integer}, maxItems 5}.
C9_DatatypeArray ==
    (Converted /\ DatatypeDecides(prop_shape) /\ MaxCountOf(prop_shape) > 1) =>
        /\ Emitted["type"] = "array"
        /\ Has(Emitted, "items")
        /\ Emitted["items"]["type"] = JsonTypeOf(prop_shape.datatype[1])
        /\ ~Has(Emitted["items"], "description")
        /\ Emitted["maxItems"] = MaxCountOf(prop_shape)
        /\ Has(Emitted, "minItems") <=> MinCountOf(prop_shape) >= 1
        /\ Has(Emitted, "minItems") => Emitted["minItems"] = MinCountOf(prop_shape)
        /\ prop_shape \in PropsScenarios =>
             Emitted = [type |-> "array", items |-> [type |-> "integer"],
                        maxItems |-> 5]

\* C9 witness: the ex:qty scenario converted
C9_Witness ==
    /\ Converted /\ prop_shape \in PropsScenarios
    /\ Emitted = [type |-> "array", items |-> [type |-> "integer"], maxItems |-> 5]

\* the type sources of a property shape, highest precedence first
TypeSources == <<"hasValue", "or", "datatype", "nodeKind", "node", "class">>

\* the position of the highest type source present, 0 when there is none
TypeSource(ps) ==
    IF \A i \in 1..Len(TypeSources) : ps[TypeSources[i]] = None THEN 0
    ELSE CHOOSE i \in 1..Len(TypeSources) :
            /\ ps[TypeSources[i]] # None
            /\ \A j \in 1..(i - 1) : ps[TypeSources[j]] = None

\* the property shape with every type source but the highest one taken away
OnlyTypeSource(ps) ==
    [f \in DOMAIN ps |->
        IF f \in Range(TypeSources) /\ TypeSource(ps) # 0
           /\ f # TypeSources[TypeSource(ps)]
        THEN None ELSE ps[f]]

TypeKeywords == {"type", "format", "const", "anyOf", "$ref", "allOf"}

\* the schema the type source gave: the items of an array, the schema itself
\* otherwise
TypedPart(ps, prop_def) ==
    IF IsArrayCardinality(ps)
    THEN IF Has(prop_def, "items") THEN prop_def["items"] ELSE EmptyDict
    ELSE prop_def

\* the $ref of a schema, direct or moved under allOf
RefOf(prop_def) ==
    IF Has(prop_def, "$ref") THEN Some(prop_def["$ref"])
    ELSE IF Has(prop_def, "allOf") /\ Has(prop_def["allOf"][1], "$ref")
         THEN Some(prop_def["allOf"][1]["$ref"])
    ELSE None

\* C20: the schema returned for a property shape is the one returned when
\* every type source below the highest one present (sh:hasValue, sh:or,
\* sh:datatype, sh:nodeKind, sh:node, sh:class) is taken away; with sh:node
\* the highest source a $ref of the schema names the sh:node shape, whatever
\* sh:class is beside it; with no type source
\* the schema that is not wrapped into an array has $comment and no type
\* keyword
C20_TypeSourcePrecedence ==
    Converted =>
        /\ Emitted = ConvertPropertyShape(OnlyTypeSource(prop_shape),
                                          class_to_shape_map).def
        /\ (TypeSource(prop_shape) = 5
            /\ RefOf(TypedPart(prop_shape, Emitted)) # None) =>
              RefOf(TypedPart(prop_shape, Emitted))
                  = Some(RefTo(GetLocalName(prop_shape.node[1])))
        /\ (TypeSource(prop_shape) = 0 /\ ~IsArrayCardinality(prop_shape)) =>
              /\ Has(Emitted, "$comment")
              /\ DOMAIN Emitted \cap TypeKeywords = {}

\* sh:node and sh:class of another shape's class on one property shape
C20_Witness ==
    /\ Converted /\ prop_shape \in PropsPrecedence
    /\ prop_shape.nodeKind = None
    /\ prop_shape.class = Some(Ex1("PartyClass"))
    /\ RefOf(TypedPart(prop_shape, Emitted)) = Some(RefTo(<<"Org">>))

\* a warning that names an IRI
Mentions(warning, iri) ==
    \E i \in 1..Len(warning) :
        i + Len(iri) - 1 <= Len(warning) /\ SubSeq(warning, i, i + Len(iri) - 1) = iri

\* a constraint whose type source is an sh:class no node shape targets:
\* the property shape itself, or a member of its sh:or list
DirectUnresolvedClass(ps) ==
    TypeSource(ps) = 6 /\ ~Has(class_to_shape_map, ps.class[1])

UnresolvedMembers(ps) ==
    IF TypeSource(ps) # 2 THEN {}
    ELSE {m \in Range(ExtractListNodes(ps.or[1])) :
             /\ m.datatype = None /\ m.nodeKind = None /\ m.class # None
             /\ ~Has(class_to_shape_map, m.class[1])}

CommentOnly(prop_def) ==
    Has(prop_def, "$comment") /\ ~Has(prop_def, "type") /\ ~Has(prop_def, "$ref")

\* the first part of C21: an unresolved sh:class directly on the property
\* shape gives a comment-only schema (when not wrapped into an array) and a
\* warning that names the class
DirectUnresolvedClassWarns ==
    (Converted /\ DirectUnresolvedClass(prop_shape)) =>
        /\ ~IsArrayCardinality(prop_shape) => CommentOnly(Emitted)
        /\ \E w \in Range(warnings) : Mentions(w, prop_shape.class[1])

\* C21: an sh:class no node shape targets, on the property shape or on a
\* member of its sh:or list, gives a comment-only schema and a warning in
\* the diagnostics list that names the class
C21_UnresolvedClassWarns ==
    /\ DirectUnresolvedClassWarns
    /\ Converted =>
          \A m \in UnresolvedMembers(prop_shape) :
              /\ ~IsArrayCardinality(prop_shape) =>
                    \E alt \in Range(Emitted["anyOf"]) : CommentOnly(alt)
              /\ \E w \in Range(warnings) : Mentions(w, m.class[1])

\* the schema of a property shape before the cardinality step
PreWrap(ps) ==
    RefRewrite(PropTypeSchema(ps, GetPropertyName(ps.path[1]), PropDescription(ps),
                              class_to_shape_map).def)

\* the pre-wrap schemas the wrapping is stated for
WrapKinds == {"type", "$ref", "anyOf", "allOf"}

\* the keys the later steps may add to the items
AddedLater ==
    {"enum", "minimum", "maximum", "exclusiveMinimum", "exclusiveMaximum",
     "minLength", "maxLength", "pattern"}

\* an array schema that carries the pre-wrap schema as its items and its
\* description as its own
WrapsItems(array_def, prior) ==
    /\ array_def.type = "array"
    /\ Has(array_def, "items")
    /\ \A k \in DOMAIN prior \ {"description"} :
          Has(array_def["items"], k) /\ array_def["items"][k] = prior[k]
    /\ DOMAIN array_def["items"] \subseteq (DOMAIN prior \ {"description"}) \cup AddedLater
    /\ Has(prior, "description") =>
          (Has(array_def, "description") /\ array_def.description = prior.description)

\* C24: a property wrapped as an array whose pre-wrap schema is type-based,
\* a $ref, an anyOf or the allOf of the $ref rewrite has items equal to the
\* pre-wrap schema minus description, and the description on the array
C24_ArrayHasItems ==
    (Converted /\ IsArrayCardinality(prop_shape)
     /\ DOMAIN PreWrap(prop_shape) \cap WrapKinds # {}) =>
        WrapsItems(Emitted, PreWrap(prop_shape))

\* the bound predicates of a property shape and their keywords
NumericBounds ==
    {<<"minInclusive", "minimum">>, <<"maxInclusive", "maximum">>,
     <<"minExclusive", "exclusiveMinimum">>, <<"maxExclusive", "exclusiveMaximum">>}
LengthBounds == {<<"minLength", "minLength">>, <<"maxLength", "maxLength">>}

\* the bounds of the given ones that are on the property shape are on the
\* target schema with their value
BoundsEmitted(bounds, Present(_)) ==
    /\ \A b \in bounds \cap NumericBounds :
          (prop_shape[b[1]] # None /\ Present(prop_shape[b[1]][1])) =>
              /\ Has(TargetOf(Emitted), b[2])
              /\ TargetOf(Emitted)[b[2]] = PyFloat(prop_shape[b[1]][1][2])
    /\ \A b \in bounds \cap LengthBounds :
          (prop_shape[b[1]] # None /\ Present(prop_shape[b[1]][1])) =>
              /\ Has(TargetOf(Emitted), b[2])
              /\ TargetOf(Emitted)[b[2]] = prop_shape[b[1]][1][2]

AnyValue(v) == TRUE

\* C25: every numeric or length bound of a property shape, whatever its
\* value (0 included), is on the target schema (the items of an array that
\* has items, the property schema otherwise) under its keyword with that
\* value
C25_BoundsEmitted ==
    Converted => BoundsEmitted(NumericBounds \cup LengthBounds, AnyValue)

(***************************************************************************)
(* Properties of a run of main() (checked under Spec).                     *)
(***************************************************************************)
\* the $defs of the document written, by name
OutputDefs == output[1]["$defs"].map
HasOutputDefs == output # None /\ Has(output[1], "$defs")

\* C1: in the document written, for every node shape and every property
\* shape of it with sh:path and sh:minCount >= 1, the term resolved for the
\* path is in the required list of the definition of the shape's name
C1_MinCountIsRequired ==
    HasOutputDefs =>
        \A shape \in graph.shapes : \A k \in 1..Len(shape.props) :
            LET ps == shape.props[k]
                shape_name == GetLocalName(shape.id)
            IN  (ps.path # None /\ MinCountOf(ps) >= 1) =>
                    /\ Has(OutputDefs, shape_name)
                    /\ Has(OutputDefs[shape_name], "required")
                    /\ GetPropertyName(ps.path[1])
                           \in Range(OutputDefs[shape_name].required)

\* two property shapes of one node shape whose distinct path IRIs have the
\* same local name
Colliding(shape, i, j) ==
    /\ shape.props[i].path # None /\ shape.props[j].path # None
    /\ shape.props[i].path # shape.props[j].path
    /\ GetLocalName(shape.props[i].path[1]) = GetLocalName(shape.props[j].path[1])

\* C3: under naming=local, two property shapes of one node shape whose
\* distinct path IRIs have the same local name are found in the properties
\* of the definition under two distinct terms, each with the schema of its
\* own property shape
C3_LocalCollisionKeepsBoth ==
    (HasOutputDefs /\ naming = "local") =>
        \A shape \in graph.shapes : \A i, j \in 1..Len(shape.props) :
            Colliding(shape, i, j) =>
                LET def == OutputDefs[GetLocalName(shape.id)]
                IN  /\ Has(def, "properties")
                    /\ \E ti, tj \in DOMAIN def.properties :
                         /\ ti # tj
                         /\ def.properties[ti] =
                              ConvertPropertyShape(shape.props[i], class_to_shape_map).def
                         /\ def.properties[tj] =
                              ConvertPropertyShape(shape.props[j], class_to_shape_map).def

\* C4: the document returned by convert() is the one returned for every
\* order in which the node shapes of the graph can be iterated
C4_OrderIndependent ==
    schema # None =>
        \A order \in Orderings(graph.shapes) : ConvertAll(order) = schema[1]

\* the command lines and files for which the run must fail
RootUnusable == args.input \notin DOMAIN files \/ ~files[args.input].parsable
ContextUnusable ==
    args.naming = "context" /\ args.context \in {"none", "unreadable", "invalid"}

\* C10: a run whose root file is missing or unparsable, or that asks for
\* naming=context without a usable @context, writes no output and ends with
\* status 1; output is written only when loading is over and convert() has
\* returned; a run that ends before convert() has returned has written
\* nothing
C10_FatalInputNoOutput ==
    /\ (RootUnusable \/ ContextUnusable) =>
          /\ output = None
          /\ pc = "done" => exit_code = Some(1)
    /\ output # None =>
          /\ stack = <<>> /\ graph.shapes = Range(node_shapes)
          /\ schema # None /\ output \in {schema, Some(Truncated)}
          /\ pc \in {"written", "done"}
    /\ (pc = "done" /\ schema = None) => (exit_code = Some(1) /\ output = None)

\* a run that loaded its graph and failed at the construction of the
\* converter has ended with status 1 and no output
C10_Witness ==
    /\ pc = "done" /\ ContextUnusable /\ ~RootUnusable
    /\ visited # {} /\ exit_code = Some(1) /\ output = None

\* C11: a run that has ended has status 0 with the document written and no
\* warning, or status 2 with the document written and a warning, or status 1
\* with nothing written; the status is 2 exactly when convert() has returned
\* and there is a warning
C11_ThreeOutcomes ==
    pc = "done" =>
        /\ \/ exit_code = Some(0) /\ output # None /\ output = schema
              /\ warnings = <<>>
           \/ exit_code = Some(2) /\ output # None /\ output = schema
              /\ warnings # <<>>
           \/ exit_code = Some(1) /\ output = None
        /\ exit_code = Some(2) <=> (schema # None /\ warnings # <<>>)

\* C13: for a graph without node shapes convert() returns the placeholder
\* ($schema, title, description, type object, no $defs) and records no
\* warning; the run writes it and ends with status 0
C13_EmptyGraphPlaceholder ==
    (schema # None /\ graph.shapes = {}) =>
        /\ DOMAIN schema[1] = {"$schema", "title", "description", "type"}
        /\ schema[1]["type"] = "object"
        /\ schema[1]["title"] = <<"Empty Schema">>
        /\ schema[1]["$schema"] = <<"http://json-schema.org/draft-07/schema#">>
        /\ warnings = <<>>
        /\ pc \in {"written", "done"} => output = schema
        /\ pc = "done" => exit_code = Some(0)

C13_Witness ==
    /\ pc = "done" /\ graph.shapes = {} /\ visited # {}
    /\ exit_code = Some(0) /\ output # None /\ ~Has(output[1], "$defs")

\* C14: no path is handled twice in a run: each file, the root included, is
\* parsed at most once, and a path that was missing or whose parse failed is
\* not tried again; every path handled is in the visited set
C14_ParsedAtMostOnce ==
    /\ \A i, j \in 1..Len(loaded) : loaded[i].path = loaded[j].path => i = j
    /\ \A i \in 2..Len(loaded) : loaded[i].path \in visited
    /\ stack # <<>> => loaded[1].path \in visited

\* loading is over for a root file that imports a.ttl and sub/b.ttl, where
\* a.ttl imports itself, sub/b.ttl and a file that is not Turtle, and
\* sub/b.ttl imports that file again
C14_Witness ==
    /\ pc = "construct"
    /\ ImportedFile \in DOMAIN files
    /\ Relative(<<"a.ttl">>) \in files[ImportedFile].imports
    /\ {Handled(RootFile, "parsed"), Handled(ImportedFile, "parsed"),
        Handled(NestedFile, "parsed"), Handled(BadFile, "failed")}
          \subseteq Range(loaded)

\* C15 (under SpecLoading): import loading, once begun, comes to its end and
\* convert() is then called, whatever cycles the owl:imports triples form
C15_ImportLoadingTerminates ==
    (pc = "imports") ~> (stack = <<>> /\ pc \in {"shapes", "write"})

\* loading is over for a root file whose import chain leads back to it
C15_Witness ==
    /\ pc = "construct" /\ stack = <<>>
    /\ NestedFile \in DOMAIN files
    /\ FileUri(RootFile) \in files[NestedFile].imports
    /\ Handled(NestedFile, "parsed") \in Range(loaded)

\* the file a local owl:imports object names, seen from a directory
LocalTarget(imported, base_dir) ==
    IF imported.scheme = "file" \/ imported.absolute THEN imported.path
    ELSE base_dir \o imported.path

IsLocalImport(imported) ==
    imported.kind = "iri" /\ imported.scheme \notin {"http", "https"}

ParsedFiles == {entry.path : entry \in {e \in Range(loaded) : e.outcome = "parsed"}}

\* C16: every file handled after the root is named by a local owl:imports
\* object seen from the directory of a parsed file, so a remote target is
\* never parsed; a missing or unparsable target adds nothing to the graph;
\* once loading is over every local import of every parsed file has been
\* handled; and a run with a usable root file and naming goes on to
\* convert() and to the output
C16_BadImportsAreSkipped ==
    /\ \A i \in 2..Len(loaded) :
          \E imported \in graph.imports, j \in 1..(i - 1) :
             /\ IsLocalImport(imported)
             /\ loaded[j].outcome = "parsed"
             /\ LocalTarget(imported, ParentOf(loaded[j].path)) = loaded[i].path
    /\ graph.shapes = UNION {files[path].shapes : path \in ParsedFiles}
    /\ (stack = <<>> /\ ParsedFiles # {}) =>
          \A path \in ParsedFiles : \A imported \in files[path].imports :
              IsLocalImport(imported) =>
                  LocalTarget(imported, ParentOf(path)) \in visited
    /\ (pc = "done" /\ ~RootUnusable /\ ~ContextUnusable) =>
          (schema # None /\ output # None)

\* a run that met a remote, a missing and an unparsable import has ended
\* with its output written
C16_Witness ==
    /\ pc = "done" /\ exit_code \in {Some(0), Some(2)} /\ output = schema
    /\ Remote \in graph.imports
    /\ \E e \in Range(loaded) : e.outcome = "missing"
    /\ \E e \in Range(loaded) : e.outcome = "failed"
    /\ Cardinality(ParsedFiles) >= 2

\* the fragment _convert_node_shape generates from a node shape of the run
FragmentOf(shape) == NodeShapeDefinition(shape, class_to_shape_map).def

RootKeys ==
    {"type", "properties", "required", "additionalProperties",
     "allOf", "anyOf", "oneOf", "not", "title", "description"}

\* a document root that carries the values of a fragment: every listed key
\* of the fragment is at the root with the fragment's value, properties and
\* required are empty when the fragment has none, and the root has no
\* composition keyword or additionalProperties the fragment lacks
RootCarries(root, fragment) ==
    /\ \A k \in RootKeys : Has(fragment, k) => (Has(root, k) /\ root[k] = fragment[k])
    /\ ~Has(fragment, "properties") => root.properties = EmptyDict
    /\ ~Has(fragment, "required") => root.required = <<>>
    /\ \A k \in {"additionalProperties", "allOf", "anyOf", "oneOf", "not"} :
          Has(root, k) => Has(fragment, k)

\* C17: the document returned for a graph with a node shape carries at its
\* root the values of the fragment generated from the first node shape
\* converted, whatever shapes were converted after it
C17_RootIsFirstShape ==
    (schema # None /\ node_shapes # <<>>) =>
        RootCarries(schema[1], FragmentOf(node_shapes[1]))

\* C18: the document returned has one $defs entry per node shape of the
\* graph, and the entry of each node shape is the fragment generated from
\* that shape
C18_EveryShapeHasOwnDefinition ==
    (schema # None /\ node_shapes # <<>>) =>
        LET defs == schema[1]["$defs"]
        IN  /\ Len(defs.keys) = Len(node_shapes)
            /\ \A i \in 1..Len(node_shapes) :
                  LET shape_name == GetLocalName(node_shapes[i].id)
                  IN  /\ Has(defs.map, shape_name)
                      /\ defs.map[shape_name] = FragmentOf(node_shapes[i])

\* the node shape converted last and the definition stored for it
LastConverted == node_shapes[shape_idx]
LastDefinition == definitions.map[GetLocalName(LastConverted.id)]

\* the terms of the property shapes of a node shape that are emitted as
\* required
OwnRequired(shape) ==
    {GetPropertyName(shape.props[k].path[1]) :
        k \in {i \in 1..Len(shape.props) :
                  /\ shape.props[i].path # None
                  /\ MinCountOf(shape.props[i]) >= 1}}

\* C19: the definition stored for a node shape has, for every object C of
\* its sh:targetClass, the property @type whose const is the local name of
\* C, and @type is the first entry of required, followed by the shape's own
\* required properties only
C19_TypeConstFromTargetClass ==
    (pc = "shapes" /\ shape_idx >= 1) =>
        \A k \in 1..Len(LastConverted.targetClass) :
            /\ Has(LastDefinition, "properties")
            /\ Has(LastDefinition.properties, <<"@type">>)
            /\ LastDefinition.properties[<<"@type">>].const =
                   PyStr(GetLocalName(LastConverted.targetClass[k]))
            /\ Has(LastDefinition, "required")
            /\ Head(LastDefinition.required) = <<"@type">>
            /\ Range(Tail(LastDefinition.required)) \subseteq OwnRequired(LastConverted)
            /\ <<"@type">> \notin Range(Tail(LastDefinition.required))

\* the alternatives of the sh:or of the node shape converted last
LastAlternatives ==
    IF LastConverted.or = None THEN <<>> ELSE ExtractListNodes(LastConverted.or[1])

\* the schemas of the convertible alternatives, in list order
RECURSIVE ConvertibleSchemas(_)
ConvertibleSchemas(alt_nodes) ==
    IF alt_nodes = <<>> THEN <<>>
    ELSE LET alt == ConvertNodeConstraintNodeToSchema(Head(alt_nodes), class_to_shape_map)
         IN  (IF DOMAIN alt.schema # {} THEN <<alt.schema>> ELSE <<>>)
             \o ConvertibleSchemas(Tail(alt_nodes))

\* the property shapes with a path that a constraint node declares
Declared(node) ==
    {ps \in Range(PropertyShapesOf(node)) : ps.path # None /\ ps.path[1] # <<>>}

SchemaOf(ps) == ConvertPropertyShape(ps, class_to_shape_map).def

DirectNames(shape) ==
    {GetPropertyName(ps.path[1]) :
        ps \in {q \in Range(shape.props) : q.path # None /\ q.path[1] # <<>>}}

\* informative as the specification lists it
StatedInformative(prop_schema) ==
    DOMAIN prop_schema \cap
        {"type", "$ref", "enum", "format", "minimum", "maximum",
         "exclusiveMinimum", "exclusiveMaximum", "pattern", "minLength",
         "maxLength"} # {}

\* anyOf has one entry per convertible alternative, and every property an
\* alternative declares is in the outer properties
AnyOfAndProperties ==
    /\ ConvertibleSchemas(LastAlternatives) # <<>> =>
          /\ Has(LastDefinition, "anyOf")
          /\ LastDefinition["anyOf"] = ConvertibleSchemas(LastAlternatives)
    /\ \A i \in 1..Len(LastAlternatives) : \A ps \in Declared(LastAlternatives[i]) :
          /\ Has(LastDefinition, "properties")
          /\ Has(LastDefinition.properties, GetPropertyName(ps.path[1]))

\* of two schemas two alternatives give one property name, the one that
\* alone passes the test is the one kept, in either order
KeepsTheOne(Informative(_)) ==
    \A i, j \in 1..Len(LastAlternatives) :
        \A pi \in Declared(LastAlternatives[i]), pj \in Declared(LastAlternatives[j]) :
            (/\ i # j
             /\ GetPropertyName(pi.path[1]) = GetPropertyName(pj.path[1])
             /\ GetPropertyName(pi.path[1]) \notin DirectNames(LastConverted)
             /\ Informative(SchemaOf(pi)) /\ ~Informative(SchemaOf(pj))) =>
                LastDefinition.properties[GetPropertyName(pi.path[1])] = SchemaOf(pi)

\* C22 as stated: informative means type, $ref, enum, format or a bound,
\* length or pattern keyword
C22_InformativeAsStated ==
    (pc = "shapes" /\ shape_idx >= 1 /\ LastConverted.or # None) =>
        AnyOfAndProperties /\ KeepsTheOne(StatedInformative)

\* C22 amended: the definition of a node shape with sh:or has anyOf with one
\* entry per convertible alternative and every property an alternative
\* declares in its properties; of two schemas two alternatives give one
\* property name, the one that alone is informative is kept in either order,
\* informative meaning one of type, $ref, anyOf, oneOf, allOf, enum, format
\* or a bound, length or pattern keyword
C22_InformativeWins ==
    (pc = "shapes" /\ shape_idx >= 1 /\ LastConverted.or # None) =>
        AnyOfAndProperties /\ KeepsTheOne(IsInformativePropertySchema)

\* the uninformative schema came first and the informative one is kept
C22_Witness ==
    /\ pc = "shapes" /\ shape_idx >= 1
    /\ LastConverted.or = Some(MkList(<<Inline(<<CodeBare>>, <<>>),
                                        Inline(<<CodeString>>, <<>>)>>))
    /\ Len(LastDefinition["anyOf"]) = 2
    /\ LastDefinition.properties[GetPropertyName(Ex1("code"))] = [type |-> "string"]

\* the inline members of the sh:and of the node shape converted last
LastInlineMembers ==
    IF LastConverted.and = None THEN {}
    ELSE {m \in Range(ExtractListNodes(LastConverted.and[1])) : m.kind = "bnode"}

\* C23: every property an inline member of a node-level sh:and declares is
\* in the properties of the definition stored for the shape, whatever else
\* the shape has
C23_AndPropertiesMerged ==
    (pc = "shapes" /\ shape_idx >= 1) =>
        \A m \in LastInlineMembers : \A ps \in Declared(m) :
            /\ Has(LastDefinition, "properties")
            /\ Has(LastDefinition.properties, GetPropertyName(ps.path[1]))

\* the property shapes with a path of a node shape that carry a construct
Carrying(shape, construct) ==
    {k \in 1..Len(shape.props) :
        /\ shape.props[k].path # None /\ shape.props[k].path[1] # <<>>
        /\ shape.props[k][construct]}

\* the warnings about a construct in a list of warnings
WarningsAbout(list, construct) ==
    {i \in 1..Len(list) : list[i][1] = "sh:" \o construct \o " found in "}

SparqlFlags ==
    {"Contains sh:sparql constraint not convertible to JSON Schema",
     " Contains sh:sparql constraint not convertible to JSON Schema"}

\* the $comment a property shape has without its sh:sparql
CommentBefore(ps) ==
    LET prop_def == SchemaOf([ps EXCEPT !.sparql = FALSE])
    IN  IF Has(prop_def, "$comment") THEN prop_def["$comment"] ELSE <<>>

\* a step of a run that converts a node shape without node-level sh:or or
\* sh:and
ConvertsPlainShape ==
    /\ pc = "shapes" /\ shape_idx' = shape_idx + 1
    /\ node_shapes[shape_idx'].or = None /\ node_shapes[shape_idx'].and = None

\* C27: no step of a run removes or changes a recorded warning; the
\* conversion of a node shape appends, for each of sh:xone, sh:and and
\* sh:sparql, one warning per property shape carrying it, and emits each such
\* property; with sh:sparql the emitted schema has a $comment that ends with
\* the flag and starts with the $comment the schema has without sh:sparql
C27_UnconvertibleWarned ==
    [][/\ IsPrefix(warnings, warnings')
       /\ ConvertsPlainShape =>
            LET shape == node_shapes[shape_idx']
                appended == SubSeq(warnings', Len(warnings) + 1, Len(warnings'))
                def == definitions'.map[GetLocalName(shape.id)]
            IN  /\ \A c \in {"xone", "and", "sparql"} :
                      Cardinality(WarningsAbout(appended, c))
                          = Cardinality(Carrying(shape, c))
                /\ \A c \in {"xone", "and", "sparql"} : \A k \in Carrying(shape, c) :
                      /\ Has(def, "properties")
                      /\ Has(def.properties, GetPropertyName(shape.props[k].path[1]))
                /\ \A k \in Carrying(shape, "sparql") :
                      LET prop_def == def.properties[GetPropertyName(shape.props[k].path[1])]
                      IN  /\ Has(prop_def, "$comment")
                          /\ prop_def["$comment"][Len(prop_def["$comment"])] \in SparqlFlags
                          /\ IsPrefix(CommentBefore(shape.props[k]), prop_def["$comment"])
      ]_vars

\* a run has recorded the warnings of two property shapes, the first with a
\* $comment of its own before that of sh:sparql
C27_Witness ==
    /\ pc = "shapes" /\ shape_idx = 2
    /\ graph.shapes \in UnconvertibleGraphs
    /\ \E i \in 1..2 :
          /\ Carrying(node_shapes[i], "sparql") # {}
          /\ Carrying(node_shapes[i], "xone") # {}
          /\ Carrying(node_shapes[i], "and") # {}
          /\ CommentBefore(node_shapes[i].props[1]) # <<>>
          /\ Len(definitions.map[GetLocalName(node_shapes[i].id)]
                    .properties[GetPropertyName(Ex1("code"))]["$comment"]) = 2
    /\ Len(warnings) = 5

\* in a schema and in every schema nested in it, the names of required are
\* keys of properties of the same object
RECURSIVE RequiredAreProperties(_)
RequiredAreProperties(d) ==
    /\ Has(d, "required") =>
          /\ Has(d, "properties")
          /\ Range(d["required"]) \subseteq DOMAIN d["properties"]
    /\ Has(d, "items") => RequiredAreProperties(d["items"])
    /\ Has(d, "not") => RequiredAreProperties(d["not"])
    /\ Has(d, "properties") =>
          \A term \in DOMAIN d["properties"] : RequiredAreProperties(d["properties"][term])
    /\ \A key \in {"anyOf", "allOf", "oneOf"} \cap DOMAIN d :
          \A i \in 1..Len(d[key]) : RequiredAreProperties(d[key][i])
    /\ Has(d, "$defs") =>
          \A name \in DOMAIN d["$defs"].map : RequiredAreProperties(d["$defs"].map[name])

\* C28: in the document returned, at the root, in every $defs entry and in
\* every schema nested in them (the inline alternatives of sh:or, sh:and and
\* sh:not included), every name of required is a key of properties of the
\* same object
C28_RequiredAreProperties ==
    schema # None => RequiredAreProperties(schema[1])

\* a document whose root, $defs entry and inline alternative each have a
\* required list
C28_Witness ==
    /\ schema # None /\ Has(schema[1], "$defs")
    /\ schema[1].required # <<>>
    /\ \E name \in DOMAIN schema[1]["$defs"].map :
          LET def == schema[1]["$defs"].map[name]
          IN  /\ Has(def, "required") /\ Len(def.required) >= 1
              /\ Has(def, "anyOf")
              /\ \E i \in 1..Len(def["anyOf"]) : Has(def["anyOf"][i], "required")

\* every $ref of a schema and of the schemas nested in it names one of the
\* given $defs keys
RECURSIVE RefsResolve(_, _)
RefsResolve(d, names) ==
    /\ Has(d, "$ref") => \E name \in names : d["$ref"] = RefTo(name)
    /\ Has(d, "items") => RefsResolve(d["items"], names)
    /\ Has(d, "not") => RefsResolve(d["not"], names)
    /\ Has(d, "properties") =>
          \A term \in DOMAIN d["properties"] : RefsResolve(d["properties"][term], names)
    /\ \A key \in {"anyOf", "allOf", "oneOf"} \cap DOMAIN d :
          \A i \in 1..Len(d[key]) : RefsResolve(d[key][i], names)
    /\ Has(d, "$defs") =>
          \A name \in DOMAIN d["$defs"].map : RefsResolve(d["$defs"].map[name], names)

\* C29: every $ref of the document returned is #/$defs/<name> for a key
\* <name> of the document's $defs
C29_NoDanglingRef ==
    (schema # None /\ Has(schema[1], "$defs")) =>
        RefsResolve(schema[1], DOMAIN schema[1]["$defs"].map)

(***************************************************************************)
(* Properties of the list walk (checked under SpecList).                   *)
(***************************************************************************)
\* C26: the list walk ends on every list of the graph, well formed or not,
\* and returns its members
C26_ListWalkTerminates == <>(pc = "list_done")

(***************************************************************************)
(* Properties of the descent through sh:not (checked under SpecNot).       *)
(***************************************************************************)
\* C30: the translation of a constraint node ends and returns to
\* _convert_node_shape, so that convert() goes on to its document, however
\* the sh:not links of the graph run, cycles included
C30_NotDescentReturns == <>(pc = "not_returned")

(***************************************************************************)
(* Properties of the orchestrators (checked under SpecOrch).               *)
(***************************************************************************)
\* C12: for a child status of 2 "convert json-schema" of one scenario
\* returns 0; over all scenarios the value returned is non-zero exactly when
\* a scenario is misconfigured or a child ended with a status other than 0
\* and 2; autogenerate runs the TypeScript step of an artifact exactly when
\* its converter ended with 0 or 2
C12_WarningsAreNotFatal ==
    /\ (orch.tool = "scenario" /\ orch.result # None
        /\ orch.children[1].configured /\ orch.children[1].status = 2)
          => orch.result = Some(0)
    /\ (orch.tool = "all" /\ orch.result # None)
          => (orch.result[1] # 0
              <=> \E i \in 1..Len(orch.children) :
                     \/ ~orch.children[i].configured
                     \/ orch.children[i].status \notin {0, 2})
    /\ orch.tool = "autogenerate"
          => \A i \in 1..orch.idx :
                orch.children[i].configured =>
                    ("ts" \in orch.launched[i]
                     <=> orch.children[i].status \in {0, 2})

====
